---- MODULE Spec2Model ----
(***************************************************************************)
(* A model of nanoninja/render: the Renderer adapters, the BufferRenderer  *)
(* decorator, the cancellation token they poll, the CompositeLoader, the   *)
(* Options and their option functions, and the FSLoader and EmbedLoader.   *)
(*                                                                         *)
(* Byte strings are sequences of string tokens, errors are chains of       *)
(* strings from the outermost wrapper down to the base error (nil is the   *)
(* empty chain), and a Go map is a function over the set of its keys.      *)
(***************************************************************************)
EXTENDS Integers, Sequences, FiniteSets, TLC

VARIABLES
    cfg,        \* the renderer under test and the arguments of the call
    ctx,        \* the context: "live", "canceled" or "deadline"
    pc,         \* position of the outermost RenderContext call
    ipc,        \* position of the adapter's RenderContext call
    buf,        \* BufferRenderer's bytes.Buffer contents
    bufCap,     \* BufferRenderer's bytes.Buffer capacity
    content,    \* BufferRenderer's local "content"
    sink,       \* bytes the caller's io.Writer has received
    sinkWrites, \* number of Write calls the caller's io.Writer has seen
    ret,        \* error returned by the outermost call
    iret,       \* error returned by the adapter
    options,    \* the adapter's folded *Options
    captured,   \* the *Options slot a CaptureOptions combinator targets
    cancelAt,   \* history: where the call stood when the token was signaled
    steps,      \* history: the steps the call has taken, in order
    loaders,    \* CompositeLoader.loaders
    lop,        \* the loader operation last performed
    childLoads, \* what each child's Load returned to CompositeLoader.Load
    loadRes,    \* result of CompositeLoader.Load
    readName,   \* argument of the last CompositeLoader.Read
    readRes,    \* result of CompositeLoader.Read
    consulted,  \* children whose Read the last CompositeLoader.Read called
    mem,        \* the Options structs in storage, their maps and slices
    prev,       \* history: mem before the last operation on Options
    olog,       \* history: the operations on Options performed, in order
    cells,      \* the captured mediatype of each Mime closure the caller keeps
    folded,     \* the *Options the last adapter fold produced
    fcall,      \* the adapter and the option functions of the last fold
    disk,       \* the files the file system, or the embedded tree, holds
    floader,    \* the FSLoader or EmbedLoader: its kind and its root
    fname,      \* argument of the last Read of floader
    fres,       \* result of the last Read of floader, and the file it opened
    adapter,    \* the template adapter: its kind, loader and function registry
    trees,      \* the template sets: the adapter's, and each call's clone
    built,      \* history: the constructor's options, and what it returned
    calls       \* the RenderContext calls on the adapter: arguments, position, result

renderVars == <<cfg, ctx, pc, ipc, buf, bufCap, content, sink, sinkWrites,
                ret, iret, options, captured, cancelAt, steps>>
loaderVars == <<loaders, lop, childLoads, loadRes, readName, readRes, consulted>>
storeVars == <<mem, prev, olog>>
foldVars == <<cells, folded, fcall>>
fileVars == <<disk, floader, fname, fres>>
tmplVars == <<adapter, trees, built, calls>>
vars == <<cfg, ctx, pc, ipc, buf, bufCap, content, sink, sinkWrites,
          ret, iret, options, captured, cancelAt, steps,
          loaders, lop, childLoads, loadRes, readName, readRes, consulted,
          mem, prev, olog, cells, folded, fcall, disk, floader, fname, fres,
          adapter, trees, built, calls>>

(***************************************************************************)
(* Bounds                                                                  *)
(***************************************************************************)
MaxInitialSize == 2
MaxOpts == 1
MaxLoaders == 2
MaxOps == 3

\* the RenderContext calls that may overlap on one template adapter
MaxCalls == 2

(***************************************************************************)
(* Errors                                                                  *)
(***************************************************************************)
NoError == <<>>

\* errors.New(text)
ErrorsNew(text) == <<text>>

\* fmt.Errorf("<context>: %w", err); a nil operand leaves nothing to unwrap
Errorf(context, err) == <<context>> \o err

\* errors.Is(err, target) for a target that wraps nothing
ErrorsIs(err, target) ==
    \E i \in 1..Len(err) : SubSeq(err, i, Len(err)) = target

Canceled == ErrorsNew("context canceled")
DeadlineExceeded == ErrorsNew("context deadline exceeded")
ErrInvalidData == ErrorsNew("invalid data for renderer")
ErrWriter == ErrorsNew("error writer test")
ErrEncode == ErrorsNew("encode error")
ErrClone == ErrorsNew("cannot Clone after executed")
ErrPostRender == ErrorsNew("post-process error")

\* ctx.Err()
CtxErr(c) ==
    CASE c = "canceled" -> Canceled
      [] c = "deadline" -> DeadlineExceeded
      [] OTHER -> NoError

\* CheckContext comparing against context.Canceled alone
CheckContext_canceledOnly(c) == IF c = "canceled" THEN Canceled ELSE NoError

\* CheckContext(ctx): the context's error when it is done, nil otherwise
CheckContext(c) == IF c # "live" THEN CtxErr(c) ELSE NoError

(***************************************************************************)
(* Options and option combinators                                          *)
(***************************************************************************)
EmptyMap == [k \in {} |-> <<>>]

\* m[k] = v on a Go map
MapSet(m, k, v) == [x \in (DOMAIN m) \cup {k} |-> IF x = k THEN v ELSE m[x]]

\* m[k] on a Go map of strings: the zero value when the key is absent
MapGet(m, k) == IF k \in DOMAIN m THEN m[k] ELSE ""

ZeroFormat == [prefix |-> "", lineEnding |-> "", indent |-> "", pretty |-> FALSE, args |-> <<>>]

\* (*Options).Reset
Reset(o) == [name |-> "", timeout |-> 0, format |-> ZeroFormat,
             params |-> EmptyMap, header |-> EmptyMap]

\* NewOptions
NewOptions == Reset([name |-> "", timeout |-> 0, format |-> ZeroFormat,
                     params |-> EmptyMap, header |-> EmptyMap])

\* FormatOptions.Clone
FormatClone(f) == [prefix |-> f.prefix, lineEnding |-> f.lineEnding, indent |-> f.indent,
                   pretty |-> f.pretty, args |-> [i \in 1..Len(f.args) |-> f.args[i]]]

\* (*Options).Clone
Clone(o) == [name |-> o.name, timeout |-> o.timeout, format |-> FormatClone(o.format),
             params |-> [k \in DOMAIN o.params |-> o.params[k]],
             header |-> [k \in DOMAIN o.header |-> [i \in 1..Len(o.header[k]) |-> o.header[k][i]]]]

\* mime.FormatMediaType(t, {"charset": cs}): a media type is a sequence of
\* tokens, the type/subtype first; anything but a bare type/subtype is
\* rejected with the empty string
FormatMediaType(t, cs) == IF Len(t) = 1 THEN t \o <<"charset", cs>> ELSE <<>>

\* the closure Mime(mediatype, charset...) hands to Header
MimeValue(mediatype, charset) ==
    IF Len(charset) > 0 THEN FormatMediaType(mediatype, charset[1]) ELSE mediatype

\* a formatter of Format(...) applied to *FormatOptions
ApplyFormatter(f, fmt) ==
    CASE f.op = "Pretty" -> [fmt EXCEPT !.pretty = TRUE]
      [] f.op = "Indent" -> [fmt EXCEPT !.indent = f.arg]
      [] f.op = "LineEnding" -> [fmt EXCEPT !.lineEnding = f.arg]
      [] f.op = "Prefix" -> [fmt EXCEPT !.prefix = f.arg]
      [] f.op = "Args" -> [fmt EXCEPT !.args = f.arg]
      [] OTHER -> fmt

RECURSIVE ApplyFormatters(_, _)
ApplyFormatters(fs, fmt) ==
    IF fs = <<>> THEN fmt
    ELSE ApplyFormatters(Tail(fs), ApplyFormatter(Head(fs), fmt))

\* the value the closure of a Mime(mediatype, charset...) a caller keeps sets on
\* each application: it assigns what it formats to its captured mediatype,
\* held in cell of cl
StoredMimeValue(cl, opt) == MimeValue(cl[opt.cell], opt.charset)

\* a Timeout that stores positive durations only
SetTimeout_positiveOnly(o, d) == IF d > 0 THEN [o EXCEPT !.timeout = d] ELSE o

\* the closure of Timeout(d): o.timeout = d
SetTimeout(o, d) == [o EXCEPT !.timeout = d]

RECURSIVE ApplyOpt(_, _)
RECURSIVE Use(_, _)

\* One option function applied to env = [o: the *Options, target: the slot a
\* CaptureOptions writes, <<>> while it is nil, cl: the captured mediatype of
\* the Mime closures the caller keeps]
ApplyOpt(opt, env) ==
    CASE opt.op = "Format" ->
            [env EXCEPT !.o.format = ApplyFormatters(opt.arg, env.o.format)]
      [] opt.op = "Mime" ->
            [env EXCEPT !.o.header =
                MapSet(env.o.header, "Content-Type", <<MimeValue(opt.arg, opt.charset)>>)]
      [] opt.op = "MimeStored" ->
            [env EXCEPT !.cl[opt.cell] = StoredMimeValue(env.cl, opt),
                        !.o.header = MapSet(env.o.header, "Content-Type",
                                            <<StoredMimeValue(env.cl, opt)>>)]
      [] opt.op = "Name" -> [env EXCEPT !.o.name = opt.arg]
      [] opt.op = "Timeout" -> [env EXCEPT !.o = SetTimeout(env.o, opt.arg)]
      [] opt.op = "Param" -> [env EXCEPT !.o.params = MapSet(env.o.params, opt.key, opt.arg)]
      [] opt.op = "CaptureOptions" -> [env EXCEPT !.target = <<Clone(env.o)>>]
      [] opt.op = "With" -> Use(env, opt.arg)
      [] OTHER -> env

\* (*Options).Use
Use(env, opts) ==
    IF opts = <<>> THEN env ELSE Use(ApplyOpt(Head(opts), env), Tail(opts))

Mime(mediatype, charset) == [op |-> "Mime", arg |-> mediatype, charset |-> charset]
MimeUTF8(mediatype) == Mime(mediatype, <<"utf-8">>)
MimeTextPlain == MimeUTF8(<<"text/plain">>)
MimeTextHTML == MimeUTF8(<<"text/html">>)
MimeJSON == MimeUTF8(<<"application/json">>)
MimeXML == MimeUTF8(<<"application/xml">>)
MimeCSV == MimeUTF8(<<"text/csv">>)

Separator(sep) == [op |-> "Param", key |-> "separator", arg |-> sep]

\* the option functions a caller passes to a render call
OptChoices ==
    { [op |-> "Format", arg |-> <<[op |-> "Pretty"]>>],
      Mime(<<"text/custom">>, <<>>),
      [op |-> "Name", arg |-> "sub"],
      [op |-> "CaptureOptions"],
      Separator(";"),
      [op |-> "Format", arg |-> <<[op |-> "LineEnding", arg |-> "\r\n"]>>],
      [op |-> "Format", arg |-> <<[op |-> "Pretty"],
                                  [op |-> "LineEnding", arg |-> "\r\n"]>>] }

RECURSIVE SeqsUpTo(_, _)
SeqsUpTo(S, n) ==
    IF n = 0 THEN {<<>>}
    ELSE LET shorter == SeqsUpTo(S, n - 1)
         IN shorter \cup {Append(s, x) : s \in shorter, x \in S}

OptSeqs == SeqsUpTo(OptChoices, MaxOpts)

\* the durations a caller passes to Timeout: negative, zero, positive
Durations == {-1, 0, 5}

\* a render call given Timeout(d) alone
TimeoutSeqs == { <<[op |-> "Timeout", arg |-> d]>> : d \in Durations }

(***************************************************************************)
(* The render call: an adapter, alone or wrapped by BufferRenderer         *)
(***************************************************************************)
Kinds == {"text", "json", "xml", "csv", "html", "texttmpl"}

\* the data argument: a string, a [][]string, a struct, nil, a map, and a
\* value the delegated encoder or the template execution rejects
DataValues == {"string", "records", "struct", "nil", "map", "bad"}

PostRenders == {"nil", "wrap", "fail"}

XMLHeader == "<?xml?>"

\* the default content type each adapter folds first
DefaultMime(kind) ==
    CASE kind = "text" -> MimeTextPlain
      [] kind = "texttmpl" -> MimeTextPlain
      [] kind = "html" -> MimeTextHTML
      [] kind = "json" -> MimeJSON
      [] kind = "xml" -> MimeXML
      [] OTHER -> MimeCSV

\* options := NewOptions().Use(Mime<Kind>()).Use(opts...)
Fold(kind, opts, target, cl) ==
    Use(Use([o |-> NewOptions, target |-> target, cl |-> cl], <<DefaultMime(kind)>>), opts)

\* the CSV type assertion accepting a string as well
IsRecords_orString(data) == data \in {"records", "string"}

\* records, ok := data.([][]string)
IsRecords(data) == data = "records"

\* whether the delegated encoder (or the template execution) accepts data;
\* encoding/xml has no encoding of a map
Encodes(kind, data) ==
    CASE kind = "text" -> TRUE
      [] kind = "csv" -> IsRecords(data)
      [] kind = "xml" -> data \notin {"bad", "map"}
      [] OTHER -> data # "bad"

\* whether the delegated encoder can have flushed bytes to its writer by the
\* time it fails: xml.Encoder writes through a bufio.Writer and the template
\* engines write as they execute; json.Encoder writes once, at the end of a
\* successful encoding
FlushesBeforeFailing(kind) == kind \in {"xml", "html", "texttmpl"}

\* the bytes a successful encoding writes
Encoded(kind, data, o) ==
    CASE kind = "text" -> IF o.format.pretty THEN <<data, "\n">> ELSE <<data>>
      [] kind \in {"html", "texttmpl"} ->
            <<kind, IF o.name = "" THEN "root" ELSE o.name, data>>
      [] kind = "csv" ->
            <<data, IF MapGet(o.params, "separator") # "" THEN MapGet(o.params, "separator") ELSE ",",
              IF o.format.lineEnding = "\r\n" THEN "\r\n" ELSE "\n">>
      [] OTHER -> <<kind, data>>

\* BufferConfig.PostRender applied to the buffered content: [out, err]
PostRender(post, bytes) ==
    IF post = "fail" THEN [out |-> <<>>, err |-> ErrPostRender]
    ELSE [out |-> <<"<">> \o bytes \o <<">">>, err |-> NoError]

\* bytes.NewBuffer(make([]byte, n)) in place of Grow: n zero bytes of content
BufferGrow_length(n) == [bytes |-> [i \in 1..n |-> "NUL"], cap |-> n]

\* bytes.Buffer after buf.Grow(n) on a new buffer: capacity, no content
BufferGrow(n) == [bytes |-> <<>>, cap |-> IF n > 0 THEN n ELSE 0]

Configs ==
    { c \in [kind : Kinds, buffered : BOOLEAN, initialSize : 0..MaxInitialSize,
             postRender : PostRenders, padding : BOOLEAN, header : BOOLEAN,
             data : DataValues, opts : OptSeqs \cup TimeoutSeqs] :
        /\ (c.padding => c.kind = "json")
        /\ (c.header => c.kind = "xml")
        /\ (~c.buffered => c.initialSize = 0 /\ c.postRender = "nil") }

RenderInit ==
    /\ cfg \in Configs
    /\ ctx \in {"live", "canceled", "deadline"}
    /\ pc = IF cfg.buffered THEN "b_check1" ELSE "direct"
    /\ ipc = IF cfg.buffered THEN "a_idle" ELSE "a_check"
    /\ buf = <<>>
    /\ bufCap = 0
    /\ content = <<>>
    /\ sink = <<>>
    /\ sinkWrites = 0
    /\ ret = NoError
    /\ iret = NoError
    /\ options = <<>>
    /\ captured = <<>>
    /\ cancelAt = IF ctx = "live" THEN "never" ELSE "before"
    /\ steps = <<>>

\* the adapter is running: called directly, or by BufferRenderer
InAdapter(at) == pc \in {"direct", "b_inner"} /\ ipc = at

\* w.Write(bytes) by the adapter: w is BufferRenderer's buffer, which grows
\* as needed and never fails, or the caller's writer, which may fail
AdapterWrite(bytes, fails) ==
    IF cfg.buffered
    THEN /\ buf' = buf \o bytes
         /\ bufCap' = IF Len(buf') > bufCap THEN Len(buf') ELSE bufCap
         /\ UNCHANGED <<sink, sinkWrites>>
    ELSE /\ sink' = IF fails THEN sink ELSE sink \o bytes
         /\ sinkWrites' = sinkWrites + 1
         /\ UNCHANGED <<buf, bufCap>>

WriterMayFail == IF cfg.buffered THEN {FALSE} ELSE BOOLEAN

\* the adapter returns err to its caller
AdapterReturn(err) ==
    /\ iret' = err
    /\ ipc' = "a_done"
    /\ IF cfg.buffered THEN UNCHANGED <<pc, ret>>
       ELSE pc' = "done" /\ ret' = err

Log(step) == steps' = Append(steps, step)

\* the step after the options are folded
AfterOptions ==
    IF \/ cfg.kind = "json" /\ cfg.padding
       \/ cfg.kind = "xml" /\ cfg.header
       \/ cfg.kind \in {"csv", "html", "texttmpl"}
    THEN "a_pre" ELSE "a_encode"

\* an adapter that folds the option functions before its entry check
A_Check_foldFirst ==
    /\ UNCHANGED <<loaderVars, storeVars, foldVars, fileVars, tmplVars>>
    /\ InAdapter("a_check")
    /\ Log("a_check")
    /\ captured' = Fold(cfg.kind, cfg.opts, captured, EmptyMap).target
    /\ IF CheckContext(ctx) # NoError
       THEN AdapterReturn(CheckContext(ctx))
       ELSE ipc' = "a_options" /\ UNCHANGED <<pc, ret, iret>>
    /\ UNCHANGED <<cfg, ctx, buf, bufCap, content, sink, sinkWrites, options, cancelAt>>

\* adapter: if err := CheckContext(ctx); err != nil { return err }
A_Check ==
    /\ UNCHANGED <<loaderVars, storeVars, foldVars, fileVars, tmplVars>>
    /\ InAdapter("a_check")
    /\ Log("a_check")
    /\ IF CheckContext(ctx) # NoError
       THEN AdapterReturn(CheckContext(ctx))
       ELSE ipc' = "a_options" /\ UNCHANGED <<pc, ret, iret>>
    /\ UNCHANGED <<cfg, ctx, buf, bufCap, content, sink, sinkWrites, options, captured, cancelAt>>

\* adapter: options := NewOptions().Use(Mime<Kind>()).Use(opts...)
A_Options ==
    /\ UNCHANGED <<loaderVars, storeVars, foldVars, fileVars, tmplVars>>
    /\ InAdapter("a_options")
    /\ Log("a_options")
    /\ LET env == Fold(cfg.kind, cfg.opts, captured, EmptyMap)
       IN /\ options' = <<env.o>>
          /\ captured' = env.target
    /\ ipc' = AfterOptions
    /\ UNCHANGED <<cfg, ctx, pc, buf, bufCap, content, sink, sinkWrites, ret, iret, cancelAt>>

\* adapter, before it encodes: the JSON padding prefix, the XML declaration,
\* the CSV type assertion, the template Clone
A_Pre ==
    /\ UNCHANGED <<loaderVars, storeVars, foldVars, fileVars, tmplVars>>
    /\ InAdapter("a_pre")
    /\ Log("a_pre")
    /\ CASE cfg.kind \in {"json", "xml"} ->
              \E fails \in WriterMayFail :
                 /\ AdapterWrite(IF cfg.kind = "json" THEN <<"padding", "(">> ELSE <<XMLHeader>>,
                                 fails)
                 /\ IF fails THEN AdapterReturn(ErrWriter)
                    ELSE ipc' = "a_encode" /\ UNCHANGED <<pc, ret, iret>>
         [] cfg.kind = "csv" ->
              /\ IF ~IsRecords(cfg.data) THEN AdapterReturn(ErrInvalidData)
                 ELSE ipc' = "a_encode" /\ UNCHANGED <<pc, ret, iret>>
              /\ UNCHANGED <<buf, bufCap, sink, sinkWrites>>
         [] OTHER ->
              \E cloneFails \in (IF cfg.kind = "html" THEN BOOLEAN ELSE {FALSE}) :
                 /\ IF cloneFails THEN AdapterReturn(ErrClone)
                    ELSE ipc' = "a_encode" /\ UNCHANGED <<pc, ret, iret>>
                 /\ UNCHANGED <<buf, bufCap, sink, sinkWrites>>
    /\ UNCHANGED <<cfg, ctx, content, options, captured, cancelAt>>

\* what the adapter does once its encoder returned err
AfterEncode(err) ==
    IF cfg.kind = "json" /\ cfg.padding
    THEN iret' = err /\ ipc' = "a_defer" /\ UNCHANGED <<pc, ret>>
    ELSE AdapterReturn(err)

\* adapter: the delegated encoder, the template execution, io.WriteString
A_Encode ==
    /\ UNCHANGED <<loaderVars, storeVars, foldVars, fileVars, tmplVars>>
    /\ InAdapter("a_encode")
    /\ Log("a_encode")
    /\ IF Encodes(cfg.kind, cfg.data)
       THEN \E fails \in WriterMayFail :
               /\ AdapterWrite(Encoded(cfg.kind, cfg.data, options[1]), fails)
               /\ AfterEncode(IF fails THEN ErrWriter ELSE NoError)
       ELSE \E flushed \in (IF FlushesBeforeFailing(cfg.kind) THEN BOOLEAN ELSE {FALSE}) :
               /\ IF flushed THEN AdapterWrite(<<"partial">>, FALSE)
                  ELSE UNCHANGED <<buf, bufCap, sink, sinkWrites>>
               /\ AfterEncode(ErrEncode)
    /\ UNCHANGED <<cfg, ctx, content, options, captured, cancelAt>>

\* JSON adapter: defer fmt.Fprintf(w, ")"), its result dropped
A_Defer ==
    /\ UNCHANGED <<loaderVars, storeVars, foldVars, fileVars, tmplVars>>
    /\ InAdapter("a_defer")
    /\ Log("a_defer")
    /\ \E fails \in WriterMayFail : AdapterWrite(<<")">>, fails)
    /\ AdapterReturn(iret)
    /\ UNCHANGED <<cfg, ctx, content, options, captured, cancelAt>>

\* BufferRenderer going on to the buffer and the wrapped renderer whatever
\* its entry check found
B_Check1_ignored ==
    /\ UNCHANGED <<loaderVars, storeVars, foldVars, fileVars, tmplVars>>
    /\ pc = "b_check1"
    /\ Log("b_check1")
    /\ buf' = BufferGrow(cfg.initialSize).bytes
    /\ bufCap' = BufferGrow(cfg.initialSize).cap
    /\ pc' = "b_inner"
    /\ ipc' = "a_check"
    /\ UNCHANGED <<cfg, ctx, content, sink, sinkWrites, ret, iret, options, captured, cancelAt>>

\* BufferRenderer: the entry check, then the buffer
B_Check1 ==
    /\ UNCHANGED <<loaderVars, storeVars, foldVars, fileVars, tmplVars>>
    /\ pc = "b_check1"
    /\ Log("b_check1")
    /\ IF CheckContext(ctx) # NoError
       THEN /\ ret' = CheckContext(ctx)
            /\ pc' = "done"
            /\ UNCHANGED <<ipc, buf, bufCap>>
       ELSE /\ buf' = BufferGrow(cfg.initialSize).bytes
            /\ bufCap' = BufferGrow(cfg.initialSize).cap
            /\ pc' = "b_inner"
            /\ ipc' = "a_check"
            /\ UNCHANGED ret
    /\ UNCHANGED <<cfg, ctx, content, sink, sinkWrites, iret, options, captured, cancelAt>>

\* fmt.Errorf("buffer render: %v", err): the cause is no longer wrapped
InnerError_unwrapped(err) == ErrorsNew("buffer render")

\* fmt.Errorf("buffer render: %w", err)
InnerError(err) == Errorf("buffer render", err)

\* BufferRenderer: the wrapped renderer has returned
B_Inner ==
    /\ UNCHANGED <<loaderVars, storeVars, foldVars, fileVars, tmplVars>>
    /\ pc = "b_inner"
    /\ ipc = "a_done"
    /\ Log("b_inner")
    /\ IF iret # NoError
       THEN /\ ret' = InnerError(iret)
            /\ pc' = "done"
            /\ UNCHANGED content
       ELSE /\ content' = buf
            /\ pc' = IF cfg.postRender # "nil" THEN "b_check2" ELSE "b_check3"
            /\ UNCHANGED ret
    /\ UNCHANGED <<cfg, ctx, ipc, buf, bufCap, sink, sinkWrites, iret, options, captured, cancelAt>>

\* BufferRenderer: the check before post-processing
B_Check2 ==
    /\ UNCHANGED <<loaderVars, storeVars, foldVars, fileVars, tmplVars>>
    /\ pc = "b_check2"
    /\ Log("b_check2")
    /\ IF CheckContext(ctx) # NoError
       THEN ret' = CheckContext(ctx) /\ pc' = "done"
       ELSE pc' = "b_post" /\ UNCHANGED ret
    /\ UNCHANGED <<cfg, ctx, ipc, buf, bufCap, content, sink, sinkWrites, iret, options,
                   captured, cancelAt>>

\* fmt.Errorf("post-processing: %v", err): the cause is no longer wrapped
PostError_unwrapped(err) == ErrorsNew("post-processing")

\* fmt.Errorf("post-processing: %w", err)
PostError(err) == Errorf("post-processing", err)

\* BufferRenderer: transformed, err := r.postRender(content)
B_Post ==
    /\ UNCHANGED <<loaderVars, storeVars, foldVars, fileVars, tmplVars>>
    /\ pc = "b_post"
    /\ Log("b_post")
    /\ LET r == PostRender(cfg.postRender, content)
       IN IF r.err # NoError
          THEN ret' = PostError(r.err) /\ pc' = "done" /\ UNCHANGED content
          ELSE content' = r.out /\ pc' = "b_check3" /\ UNCHANGED ret
    /\ UNCHANGED <<cfg, ctx, ipc, buf, bufCap, sink, sinkWrites, iret, options, captured, cancelAt>>

\* BufferRenderer without the check before the final write
B_Check3_missing ==
    /\ UNCHANGED <<loaderVars, storeVars, foldVars, fileVars, tmplVars>>
    /\ pc = "b_check3"
    /\ Log("b_check3")
    /\ pc' = "b_write"
    /\ UNCHANGED <<cfg, ctx, ipc, buf, bufCap, content, sink, sinkWrites, ret, iret, options,
                   captured, cancelAt>>

\* BufferRenderer: the check before the final write
B_Check3 ==
    /\ UNCHANGED <<loaderVars, storeVars, foldVars, fileVars, tmplVars>>
    /\ pc = "b_check3"
    /\ Log("b_check3")
    /\ IF CheckContext(ctx) # NoError
       THEN ret' = CheckContext(ctx) /\ pc' = "done"
       ELSE pc' = "b_write" /\ UNCHANGED ret
    /\ UNCHANGED <<cfg, ctx, ipc, buf, bufCap, content, sink, sinkWrites, iret, options,
                   captured, cancelAt>>

\* BufferRenderer: _, err := w.Write(content); return err
B_Write ==
    /\ UNCHANGED <<loaderVars, storeVars, foldVars, fileVars, tmplVars>>
    /\ pc = "b_write"
    /\ Log("b_write")
    /\ \E fails \in BOOLEAN :
          /\ sink' = IF fails THEN sink ELSE sink \o content
          /\ ret' = IF fails THEN ErrWriter ELSE NoError
    /\ sinkWrites' = sinkWrites + 1
    /\ pc' = "done"
    /\ UNCHANGED <<cfg, ctx, ipc, buf, bufCap, content, iret, options, captured, cancelAt>>

\* the caller cancels the context, or its deadline passes, while the call runs
Cancel ==
    /\ UNCHANGED <<loaderVars, storeVars, foldVars, fileVars, tmplVars>>
    /\ ctx = "live"
    /\ pc # "done"
    /\ ctx' \in {"canceled", "deadline"}
    /\ cancelAt' = IF pc \in {"direct", "b_inner"} THEN ipc ELSE pc
    /\ UNCHANGED <<cfg, pc, ipc, buf, bufCap, content, sink, sinkWrites, ret, iret, options,
                   captured, steps>>

(***************************************************************************)
(* Template loaders and CompositeLoader                                    *)
(***************************************************************************)
\* a template name is its stem followed by its extension
Names == {<<"x", ".html">>, <<"y", ".txt">>}
ErrorLoaderName == <<"test", ".html">>
Contents == {"A", "B"}
Extensions == {<<>>, <<".html">>}

ErrTemplateNotFound == ErrorsNew("template not found")
ErrLoadFailed == ErrorsNew("load failed")
ErrReadFailed == ErrorsNew("read failed")

\* strings.HasSuffix
HasSuffix(str, suffix) ==
    /\ Len(suffix) <= Len(str)
    /\ SubSeq(str, Len(str) - Len(suffix) + 1, Len(str)) = suffix

\* baseLoader.hasValidExtension
hasValidExtension(l, path) == IF l.extension = <<>> THEN TRUE ELSE HasSuffix(path, l.extension)

\* the children a CompositeLoader is built over: StringLoaders, and loaders
\* whose Load or Read fails with a configured error
StringLoaders ==
    { [kind |-> "string", templates |-> [n \in S |-> c], extension |-> e,
       loadErr |-> NoError, readErr |-> NoError] :
         S \in SUBSET Names, c \in Contents, e \in Extensions }

ErrorLoaders ==
    { [kind |-> "error", templates |-> EmptyMap, extension |-> <<".html">>,
       loadErr |-> le, readErr |-> re] :
         le \in {NoError, ErrLoadFailed},
         re \in {NoError, ErrReadFailed, ErrTemplateNotFound} }

Children == StringLoaders \cup ErrorLoaders

\* the orders in which a range over a Go map can visit the keys S
Orders(S) ==
    { s \in [1..Cardinality(S) -> S] : \A i, j \in DOMAIN s : i # j => s[i] # s[j] }

\* child.Load(pattern): the results it can return, [names, err]
ChildLoad(l) ==
    IF l.kind = "string"
    THEN { [names |-> s, err |-> NoError] :
             s \in Orders({n \in DOMAIN l.templates : hasValidExtension(l, n)}) }
    ELSE IF l.loadErr # NoError
         THEN { [names |-> <<>>, err |-> l.loadErr] }
         ELSE { [names |-> <<ErrorLoaderName>>, err |-> NoError] }

\* child.Read(name): [content, err]
ChildRead(l, name) ==
    IF l.kind = "string"
    THEN IF name \in DOMAIN l.templates
         THEN [content |-> <<l.templates[name]>>, err |-> NoError]
         ELSE [content |-> <<>>, err |-> Errorf("template", ErrTemplateNotFound)]
    ELSE IF l.readErr # NoError
         THEN [content |-> <<>>, err |-> l.readErr]
         ELSE [content |-> <<"content">>, err |-> NoError]

\* the inner loop of CompositeLoader.Load without the seen[name] test
AddUnseen_all(names, seen, templates) ==
    [seen |-> seen \cup {names[i] : i \in DOMAIN names}, templates |-> templates \o names]

\* the inner loop of CompositeLoader.Load: append the names not seen yet
RECURSIVE AddUnseen(_, _, _)
AddUnseen(names, seen, templates) ==
    IF names = <<>> THEN [seen |-> seen, templates |-> templates]
    ELSE IF Head(names) \notin seen
         THEN AddUnseen(Tail(names), seen \cup {Head(names)}, Append(templates, Head(names)))
         ELSE AddUnseen(Tail(names), seen, templates)

\* fmt.Errorf("composite load error: %w", err)
LoadError(err) == Errorf("composite load error", err)

\* CompositeLoader.Load over the results rs its children return, from child i
\* on: [templates, err, queried], queried the number of children asked
RECURSIVE LoadFrom(_, _, _, _)
LoadFrom(rs, i, seen, templates) ==
    IF i > Len(rs) THEN [templates |-> templates, err |-> NoError, queried |-> Len(rs)]
    ELSE IF rs[i].err # NoError
         THEN [templates |-> <<>>, err |-> LoadError(rs[i].err), queried |-> i]
         ELSE LET r == AddUnseen(rs[i].names, seen, templates)
              IN LoadFrom(rs, i + 1, r.seen, r.templates)

CompositeLoad(rs) == LoadFrom(rs, 1, {}, <<>>)

\* CompositeLoader.Read reporting every failure as ErrTemplateNotFound
ReadError_alwaysNotFound(lastErr) == Errorf("in any loader", ErrTemplateNotFound)

\* the error CompositeLoader.Read returns once every child has failed
ReadError(lastErr) ==
    IF ErrorsIs(lastErr, ErrTemplateNotFound)
    THEN Errorf("in any loader", ErrTemplateNotFound)
    ELSE Errorf("composite read error", lastErr)

\* CompositeLoader.Read from child i on: [content, err, consulted]
RECURSIVE ReadFrom(_, _, _, _)
ReadFrom(ls, name, i, lastErr) ==
    IF i > Len(ls)
    THEN [content |-> <<>>, err |-> ReadError(lastErr), consulted |-> Len(ls)]
    ELSE LET r == ChildRead(ls[i], name)
         IN IF r.err = NoError
            THEN [content |-> r.content, err |-> NoError, consulted |-> i]
            ELSE ReadFrom(ls, name, i + 1, r.err)

\* CompositeLoader.Read returning the first child's result, failed or not
CompositeRead_firstOnly(ls, name) ==
    IF ls = <<>> THEN ReadFrom(ls, name, 1, NoError)
    ELSE LET r == ChildRead(ls[1], name)
         IN [content |-> r.content, consulted |-> 1,
             err |-> IF r.err = NoError THEN NoError ELSE ReadError(r.err)]

CompositeRead(ls, name) == ReadFrom(ls, name, 1, NoError)

NoResult == [content |-> <<>>, err |-> NoError, consulted |-> 0]
NoLoad == [templates |-> <<>>, err |-> NoError, queried |-> 0]

LoaderInit ==
    /\ loaders \in SeqsUpTo(Children, MaxLoaders)
    /\ lop = "new"
    /\ childLoads = <<>>
    /\ loadRes = NoLoad
    /\ readName = <<>>
    /\ readRes = NoResult
    /\ consulted = 0

\* what the children ls can return to one CompositeLoader.Load, child by child
RECURSIVE ChildLoads(_)
ChildLoads(ls) ==
    IF ls = <<>> THEN {<<>>}
    ELSE {<<r>> \o rest : r \in ChildLoad(Head(ls)), rest \in ChildLoads(Tail(ls))}

\* CompositeLoader.Load(pattern)
Load ==
    /\ UNCHANGED <<renderVars, storeVars, foldVars, fileVars, tmplVars>>
    /\ \E rs \in ChildLoads(loaders) :
          /\ loadRes' = CompositeLoad(rs)
          /\ childLoads' = SubSeq(rs, 1, CompositeLoad(rs).queried)
    /\ lop' = "Load"
    /\ UNCHANGED <<loaders, readName, readRes, consulted>>

\* CompositeLoader.Read(name)
Read ==
    /\ UNCHANGED <<renderVars, storeVars, foldVars, fileVars, tmplVars>>
    /\ \E name \in Names \cup {ErrorLoaderName} :
          /\ readName' = name
          /\ readRes' = CompositeRead(loaders, name)
          /\ consulted' = CompositeRead(loaders, name).consulted
    /\ lop' = "Read"
    /\ UNCHANGED <<loaders, childLoads, loadRes>>

(***************************************************************************)
(* Options in storage                                                      *)
(*                                                                         *)
(* mem holds what the Go heap holds: the Options structs a *Options points *)
(* to (objs), the map[string]string values (params), the MIMEHeader maps   *)
(* (headers, from a key to the slice that holds its values) and the        *)
(* backing arrays of slices (slices). A reference is an index into one of  *)
(* these, Nil for a nil map, slice or pointer. mem.target is the *Options  *)
(* slot CaptureOptions writes and mem.resp the http.Header WriteResponse   *)
(* writes.                                                                 *)
(***************************************************************************)
Nil == 0

NewMem == [objs |-> <<>>, params |-> <<>>, headers |-> <<>>, slices |-> <<>>,
           target |-> Nil, resp |-> EmptyMap]

\* the zero value of FormatOptions
ZeroFormatOptions ==
    [prefix |-> "", lineEnding |-> "", indent |-> "", pretty |-> FALSE, args |-> Nil]

\* the zero value of Options: &Options{}
ZeroOptions ==
    [name |-> "", timeout |-> 0, format |-> ZeroFormatOptions, params |-> Nil, header |-> Nil]

\* the elements a slice reference holds
SliceOf(m, r) == IF r = Nil THEN <<>> ELSE m.slices[r]

\* Reset that clears the scalar fields and leaves the maps as they are
OptionsReset_keepMaps(m, p) ==
    [m EXCEPT !.objs[p].name = "", !.objs[p].timeout = 0,
              !.objs[p].format = ZeroFormatOptions]

\* (*Options).Reset on the struct at p
OptionsReset(m, p) ==
    [m EXCEPT !.params = Append(@, EmptyMap),
              !.headers = Append(@, EmptyMap),
              !.objs[p] = [name |-> "", timeout |-> 0, format |-> ZeroFormatOptions,
                           params |-> Len(m.params) + 1, header |-> Len(m.headers) + 1]]

\* NewOptions(): the new struct is the last of objs
OptionsNew(m) == OptionsReset([m EXCEPT !.objs = Append(@, ZeroOptions)], Len(m.objs) + 1)

\* FormatOptions.Clone: [m: storage afterwards, f: the copy]
FormatOptionsClone(m, f) ==
    IF SliceOf(m, f.args) = <<>>
    THEN [m |-> m, f |-> [f EXCEPT !.args = Nil]]
    ELSE [m |-> [m EXCEPT !.slices = Append(@, m.slices[f.args])],
          f |-> [f EXCEPT !.args = Len(m.slices) + 1]]

\* the header loop of Clone assigning clone.header[k] = v
RECURSIVE CloneHeader_shared(_, _, _, _)
CloneHeader_shared(m, src, keys, dst) ==
    IF keys = {} THEN m
    ELSE LET k == CHOOSE x \in keys : TRUE
         IN CloneHeader_shared([m EXCEPT !.headers[dst] = MapSet(@, k, src[k])],
                               src, keys \ {k}, dst)

\* the header loop of Clone: clone.header[k] = append([]string{}, v...)
RECURSIVE CloneHeader(_, _, _, _)
CloneHeader(m, src, keys, dst) ==
    IF keys = {} THEN m
    ELSE LET k == CHOOSE x \in keys : TRUE
         IN CloneHeader([m EXCEPT !.slices = Append(@, m.slices[src[k]]),
                                  !.headers[dst] = MapSet(@, k, Len(m.slices) + 1)],
                        src, keys \ {k}, dst)

\* (*Options).Clone of the struct at p: the clone is the last of objs
OptionsClone(m, p) ==
    LET o == m.objs[p]
        fc == FormatOptionsClone(m, o.format)
        m1 == [fc.m EXCEPT !.params = Append(@, IF o.params = Nil THEN EmptyMap
                                                 ELSE fc.m.params[o.params]),
                           !.headers = Append(@, EmptyMap)]
        m2 == IF o.header = Nil THEN m1
              ELSE CloneHeader(m1, m1.headers[o.header], DOMAIN m1.headers[o.header],
                               Len(m1.headers))
    IN [m2 EXCEPT !.objs = Append(@, [name |-> o.name, timeout |-> o.timeout,
                                      format |-> fc.f, params |-> Len(m1.params),
                                      header |-> Len(m1.headers)])]

\* MIMEHeader.Set(key, value) on the header map of p
HeaderSet(m, p, key, value) ==
    [m EXCEPT !.slices = Append(@, <<value>>),
              !.headers[m.objs[p].header] = MapSet(@, key, Len(m.slices) + 1)]

\* MIMEHeader.Add(key, value) on the header map of p: h[key] = append(h[key], value)
HeaderAdd(m, p, key, value) ==
    LET h == m.headers[m.objs[p].header]
        old == IF key \in DOMAIN h THEN m.slices[h[key]] ELSE <<>>
    IN [m EXCEPT !.slices = Append(@, Append(old, value)),
                 !.headers[m.objs[p].header] = MapSet(@, key, Len(m.slices) + 1)]

\* a formatter of Format(...) applied to &o.format of the struct at p
FormatApply(m, p, f) ==
    CASE f.op = "Pretty" -> [m EXCEPT !.objs[p].format.pretty = TRUE]
      [] f.op = "Indent" -> [m EXCEPT !.objs[p].format.indent = f.arg]
      [] f.op = "LineEnding" -> [m EXCEPT !.objs[p].format.lineEnding = f.arg]
      [] f.op = "Prefix" -> [m EXCEPT !.objs[p].format.prefix = f.arg]
      [] f.op = "Args" ->
            IF f.arg = <<>> THEN [m EXCEPT !.objs[p].format.args = Nil]
            ELSE [m EXCEPT !.slices = Append(@, f.arg),
                           !.objs[p].format.args = Len(m.slices) + 1]
      [] OTHER -> m

RECURSIVE FormatApplyAll(_, _, _)
FormatApplyAll(m, p, fs) ==
    IF fs = <<>> THEN m ELSE FormatApplyAll(FormatApply(m, p, Head(fs)), p, Tail(fs))

\* the values loop of WriteResponse for one key: w.Header().Set(k, value)
RECURSIVE WriteValues(_, _, _)
WriteValues(resp, k, values) ==
    IF values = <<>> THEN resp
    ELSE WriteValues(MapSet(resp, k, <<Head(values)>>), k, Tail(values))

\* the keys loop of WriteResponse
RECURSIVE WriteKeys(_, _, _, _)
WriteKeys(m, h, keys, resp) ==
    IF keys = {} THEN resp
    ELSE LET k == CHOOSE x \in keys : TRUE
         IN WriteKeys(m, h, keys \ {k}, WriteValues(resp, k, m.slices[h[k]]))

\* CaptureOptions(target) storing the *Options itself: *target = o
CaptureOptions_alias(m, p) == [m EXCEPT !.target = p]

\* CaptureOptions(target) applied to the struct at p: *target = o.Clone()
CaptureOptions(m, p) == [OptionsClone(m, p) EXCEPT !.target = Len(m.objs) + 1]

\* WriteResponse(w) applied to the struct at p
WriteResponse(m, p) ==
    LET h == m.headers[m.objs[p].header]
    IN [m EXCEPT !.resp = WriteKeys(m, h, DOMAIN h, m.resp)]

RECURSIVE OptionsApply(_, _, _)
RECURSIVE OptionsUse(_, _, _)

\* (*Options).Use ranging over opts from the last to the first
RECURSIVE OptionsUse_rightToLeft(_, _, _)
OptionsUse_rightToLeft(m, p, opts) ==
    IF opts = <<>> THEN m
    ELSE OptionsApply(OptionsUse_rightToLeft(m, p, Tail(opts)), p, Head(opts))

\* one option function applied to the struct at p
OptionsApply(m, p, opt) ==
    CASE opt.op = "Name" -> [m EXCEPT !.objs[p].name = opt.arg]
      [] opt.op = "Timeout" -> [m EXCEPT !.objs[p].timeout = opt.arg]
      [] opt.op = "Param" ->
            IF m.objs[p].params = Nil
            THEN [m EXCEPT !.params = Append(@, MapSet(EmptyMap, opt.key, opt.arg)),
                           !.objs[p].params = Len(m.params) + 1]
            ELSE [m EXCEPT !.params[m.objs[p].params] = MapSet(@, opt.key, opt.arg)]
      [] opt.op = "Format" -> FormatApplyAll(m, p, opt.arg)
      [] opt.op = "Mime" ->
            HeaderSet(m, p, "Content-Type", MimeValue(opt.arg, opt.charset))
      [] opt.op = "HeaderAdd" -> HeaderAdd(m, p, opt.key, opt.arg)
      [] opt.op = "CaptureOptions" -> CaptureOptions(m, p)
      [] opt.op = "WriteResponse" -> WriteResponse(m, p)
      [] opt.op = "With" -> OptionsUse(m, p, opt.arg)
      [] OTHER -> m

\* (*Options).Use(opts...) on the struct at p; it returns p
OptionsUse(m, p, opts) ==
    IF opts = <<>> THEN m ELSE OptionsUse(OptionsApply(m, p, Head(opts)), p, Tail(opts))

\* FormatOptions.LineEnding() returning the stored field as it is
LineEnding_stored(f) == f.lineEnding

\* FormatOptions.LineEnding()
LineEnding(f) == IF f.lineEnding = "" THEN "\n" ELSE f.lineEnding

UseCRLF == [op |-> "Format", arg |-> <<[op |-> "LineEnding", arg |-> "\r\n"]>>]
Textf(args) == [op |-> "Format", arg |-> <<[op |-> "Args", arg |-> args]>>]
With(opts) == [op |-> "With", arg |-> opts]

\* Header(func(h HeaderOptions) { h.Add(key, value) })
HeaderAdding(key, value) == [op |-> "HeaderAdd", key |-> key, arg |-> value]

\* the argument lists a caller passes to (*Options).Use
UseChoices ==
    { <<[op |-> "Name", arg |-> "t"]>>,
      <<[op |-> "Timeout", arg |-> 5], [op |-> "Param", key |-> "k", arg |-> "v"]>>,
      <<[op |-> "Format", arg |-> <<[op |-> "Prefix", arg |-> "a"]>>],
        [op |-> "Format", arg |-> <<[op |-> "Pretty"], [op |-> "Prefix", arg |-> "b"],
                                    [op |-> "Indent", arg |-> "  "]>>]>>,
      <<UseCRLF>>,
      <<Textf(<<(<<"a">>), (<<"b">>)>>)>>,
      <<HeaderAdding("X-Test", <<"a">>), HeaderAdding("X-Test", <<"b">>)>>,
      <<MimeJSON>>,
      <<[op |-> "Name", arg |-> "t"], [op |-> "CaptureOptions"], [op |-> "Name", arg |-> "u"]>>,
      <<[op |-> "WriteResponse"]>>,
      <<With(<<[op |-> "Name", arg |-> "u"],
               [op |-> "Format", arg |-> <<[op |-> "LineEnding", arg |-> ""]>>],
               [op |-> "Param", key |-> "k", arg |-> "w"]>>)>> }

\* what a caller writes through Params(), Header() or a retained args slice
ParamKeys == {"k"}
HeaderKeys == {"X-Test"}

StoreInit ==
    /\ mem = OptionsNew(NewMem)
    /\ prev = NewMem
    /\ olog = <<>>

\* the operation is recorded: op, the receiver p, the pointer q it returns
Did(op, p, q, opts) ==
    /\ Len(olog) < MaxOps
    /\ olog' = Append(olog, [op |-> op, p |-> p, q |-> q, opts |-> opts])
    /\ prev' = mem
    /\ UNCHANGED <<renderVars, loaderVars, foldVars, fileVars, tmplVars>>

\* o := NewOptions()
O_New ==
    /\ mem' = OptionsNew(mem)
    /\ Did("New", Nil, Len(mem.objs) + 1, <<>>)

\* o.Use(opts...)
O_Use ==
    \E p \in DOMAIN mem.objs, opts \in UseChoices :
        /\ mem' = OptionsUse(mem, p, opts)
        /\ Did("Use", p, p, opts)

\* c := o.Clone()
O_Clone ==
    \E p \in DOMAIN mem.objs :
        /\ mem' = OptionsClone(mem, p)
        /\ Did("Clone", p, Len(mem.objs) + 1, <<>>)

\* o.Reset()
O_Reset ==
    \E p \in DOMAIN mem.objs :
        /\ mem' = OptionsReset(mem, p)
        /\ Did("Reset", p, p, <<>>)

\* o.Params()[k] = "z"
O_SetParam ==
    \E p \in DOMAIN mem.objs, k \in ParamKeys :
        /\ mem' = [mem EXCEPT !.params[mem.objs[p].params] = MapSet(@, k, "z")]
        /\ Did("SetParam", p, Nil, <<>>)

\* o.Header().Set(k, "z")
O_SetHeader ==
    \E p \in DOMAIN mem.objs, k \in HeaderKeys :
        /\ mem' = HeaderSet(mem, p, k, <<"z">>)
        /\ Did("SetHeader", p, Nil, <<>>)

\* o.Header().Add(k, "z")
O_AddHeader ==
    \E p \in DOMAIN mem.objs, k \in HeaderKeys :
        /\ mem' = HeaderAdd(mem, p, k, <<"z">>)
        /\ Did("AddHeader", p, Nil, <<>>)

\* o.Header()[k][i] = "z"
O_SetHeaderValue ==
    \E p \in DOMAIN mem.objs :
        \E k \in DOMAIN mem.headers[mem.objs[p].header] :
            LET r == mem.headers[mem.objs[p].header][k]
            IN \E i \in DOMAIN mem.slices[r] :
                  /\ mem' = [mem EXCEPT !.slices[r][i] = <<"z">>]
                  /\ Did("SetHeaderValue", p, Nil, <<>>)

\* args[i] = "z" on the slice the struct at p holds as format.args
O_SetArg ==
    \E p \in DOMAIN mem.objs :
        /\ mem.objs[p].format.args # Nil
        /\ \E i \in DOMAIN mem.slices[mem.objs[p].format.args] :
              /\ mem' = [mem EXCEPT !.slices[mem.objs[p].format.args][i] = <<"z">>]
              /\ Did("SetArg", p, Nil, <<>>)

(***************************************************************************)
(* The adapters' fold of option functions, call after call                 *)
(***************************************************************************)
\* m := Mime("text/stored", "utf-8"), kept by the caller and passed to calls
StoredMime == [op |-> "MimeStored", cell |-> "m", arg |-> <<"text/stored">>,
               charset |-> <<"utf-8">>]

\* the option functions a caller passes to the calls
FoldOptChoices ==
    OptChoices \cup
    { StoredMime,
      With(<<Mime(<<"text/custom">>, <<>>), Mime(<<"text/other">>, <<"utf-8">>)>>) }

FoldSeqs == SeqsUpTo(FoldOptChoices, MaxOpts)

FoldInit ==
    /\ cells = [c \in {StoredMime.cell} |-> StoredMime.arg]
    /\ folded = <<>>
    /\ fcall = [kind |-> "text", opts |-> <<>>]

\* one RenderContext call up to the fold of its options
F_Render ==
    /\ \E kind \in Kinds, opts \in FoldSeqs :
          LET env == Fold(kind, opts, <<>>, cells)
          IN /\ folded' = <<env.o>>
             /\ cells' = env.cl
             /\ fcall' = [kind |-> kind, opts |-> opts]
    /\ UNCHANGED <<renderVars, loaderVars, storeVars, fileVars, tmplVars>>

(***************************************************************************)
(* FSLoader and EmbedLoader                                                *)
(*                                                                         *)
(* A path is [abs, segs]: whether it is rooted, and its elements in order; *)
(* an element is the sequence of its characters, so that the string of a   *)
(* path is a sequence of characters and "/" and strings.HasPrefix is the   *)
(* prefix order of sequences.                                              *)
(***************************************************************************)
ErrPathTraversal == ErrorsNew("path traversal attempt detected")

DotDot == <<"..">>
Dot == <<".">>

\* the elements of the model: the directory above the root, the root
\* directory, a sibling whose name starts with the root's, another sibling,
\* a subdirectory and the template file
DirTop == <<"e">>
DirRoot == <<"t">>
DirSibling == <<"t", "s">>
DirOther == <<"u">>
DirSub == <<"d">>
FileX == <<"x">>

\* the string of a path
RECURSIVE JoinSegs(_)
JoinSegs(segs) ==
    IF segs = <<>> THEN <<>>
    ELSE IF Len(segs) = 1 THEN segs[1]
    ELSE segs[1] \o <<"/">> \o JoinSegs(Tail(segs))

PathString(path) ==
    IF path.segs = <<>> THEN (IF path.abs THEN <<"/">> ELSE Dot)
    ELSE (IF path.abs THEN <<"/">> ELSE <<>>) \o JoinSegs(path.segs)

\* strings.HasPrefix(s, prefix)
StringHasPrefix(s, prefix) ==
    Len(prefix) <= Len(s) /\ SubSeq(s, 1, Len(prefix)) = prefix

\* filepath.Clean / path.Clean on the elements todo, done being the cleaned ones
RECURSIVE CleanSegs(_, _, _)
CleanSegs(abs, todo, done) ==
    IF todo = <<>> THEN done
    ELSE LET seg == Head(todo)
         IN IF seg = Dot THEN CleanSegs(abs, Tail(todo), done)
            ELSE IF seg # DotDot THEN CleanSegs(abs, Tail(todo), Append(done, seg))
            ELSE IF done # <<>> /\ done[Len(done)] # DotDot
                 THEN CleanSegs(abs, Tail(todo), SubSeq(done, 1, Len(done) - 1))
            ELSE IF abs THEN CleanSegs(abs, Tail(todo), done)
            ELSE CleanSegs(abs, Tail(todo), Append(done, DotDot))

\* filepath.Clean(filepath.Join(root, name)) and path.Join(root, name)
JoinClean(root, name) == [abs |-> root.abs, segs |-> CleanSegs(root.abs, root.segs \o name, <<>>)]

\* fs.ValidPath: unrooted, and without "." or ".." elements
ValidPath(path) ==
    /\ ~path.abs
    /\ \A i \in DOMAIN path.segs : path.segs[i] \notin {Dot, DotDot}

\* the roots a loader is configured with: LoaderConfig.Root as given
Roots == { [abs |-> TRUE, segs |-> <<DirTop, DirRoot>>],
           [abs |-> FALSE, segs |-> <<DirTop, DirRoot>>] }

\* the places of files, relative or rooted as the root is
Places == { <<DirTop, DirRoot, FileX>>, <<DirTop, DirRoot, DirSub, FileX>>,
            <<DirTop, DirSibling, FileX>>, <<DirTop, DirOther, FileX>>, <<DirTop, FileX>> }

\* the names passed to Read
ReadNames == { <<FileX>>, <<DirSub, DotDot, FileX>>, <<DotDot, FileX>>,
               <<DotDot, DirSibling, FileX>>, <<DotDot, DirOther, FileX>>,
               <<DotDot, DotDot, DotDot, FileX>> }

\* the content of the file at segs
ContentAt(segs) == <<"content of">> \o JoinSegs(segs)

NoRead == [content |-> <<>>, err |-> NoError, opened |-> <<>>]

FileInit ==
    /\ disk \in SUBSET Places
    /\ floader \in { [kind |-> "fs", root |-> r] : r \in Roots }
                    \cup { [kind |-> "embed", root |-> r] : r \in {x \in Roots : ~x.abs} }
    /\ fname = <<>>
    /\ fres = NoRead

\* os.ReadFile(path) and its classification by FSLoader.Read
FSReadFile(path) ==
    IF path.segs \in disk
    THEN [content |-> ContentAt(path.segs), err |-> NoError, opened |-> path.segs]
    ELSE [content |-> <<>>, err |-> Errorf("name", ErrTemplateNotFound), opened |-> <<>>]

\* FSLoader.Read(name)
FSRead ==
    /\ floader.kind = "fs"
    /\ \E name \in ReadNames :
          LET path == JoinClean(floader.root, name)
          IN /\ fname' = name
             /\ fres' = IF ~StringHasPrefix(PathString(path), PathString(floader.root))
                        THEN [content |-> <<>>, opened |-> <<>>,
                              err |-> Errorf("attempt to read outside root directory",
                                             ErrPathTraversal)]
                        ELSE FSReadFile(path)
    /\ UNCHANGED <<disk, floader>>
    /\ UNCHANGED <<renderVars, loaderVars, storeVars, foldVars, tmplVars>>

\* EmbedLoader.Read(name)
EmbedRead ==
    /\ floader.kind = "embed"
    /\ \E name \in ReadNames :
          LET path == JoinClean(floader.root, name)
          IN /\ fname' = name
             /\ fres' = IF ValidPath(path) /\ path.segs \in disk
                        THEN [content |-> ContentAt(path.segs), err |-> NoError,
                              opened |-> path.segs]
                        ELSE [content |-> <<>>, opened |-> <<>>,
                              err |-> Errorf("name", ErrTemplateNotFound)]
    /\ UNCHANGED <<disk, floader>>
    /\ UNCHANGED <<renderVars, loaderVars, storeVars, foldVars, tmplVars>>

(***************************************************************************)
(* The template adapters: construction, and RenderContext calls that       *)
(* overlap on one adapter                                                  *)
(*                                                                         *)
(* A template set is [name, defs, funcs, executed]: the name of the        *)
(* template the *template.Template stands for, the templates defined in    *)
(* the set, the functions registered with it, and whether html/template    *)
(* has escaped it for execution. trees[0] is the set the adapter points    *)
(* to and trees[i] the set call i got from Clone; a slot holds <<>> until  *)
(* it is filled.                                                           *)
(***************************************************************************)
TmplKinds == {"html", "texttmpl"}

ErrNoTemplate == ErrorsNew("no template associated with the set")

\* DefaultFuncs(): the table, from the name of a function to the function
DefaultFuncs ==
    [f \in {"lower", "upper", "trim", "contains", "toHTML", "nl2br", "now",
            "date", "add", "sub", "mul", "div", "sum", "avg"} |-> "default"]

\* for name, fn := range src { dst[name] = fn }
MergeFuncs(dst, src) ==
    [f \in (DOMAIN dst) \cup (DOMAIN src) |-> IF f \in DOMAIN src THEN src[f] ELSE dst[f]]

\* New(): a BaseTemplate with no loader and an empty registry
New == [loader |-> <<>>, funcMap |-> EmptyMap]

\* template.New(name)
TemplateNew(name) ==
    [name |-> name, defs |-> EmptyMap, funcs |-> EmptyMap, executed |-> FALSE]

\* SetFuncs(funcMap), SetFuncsHTML(funcMap): the functions are put in the
\* adapter's registry and registered with the template set
SetFuncs(t, funcMap) ==
    LET registry == MergeFuncs(t.funcMap, funcMap)
    IN [t EXCEPT !.funcMap = registry,
                 !.tree.funcs = MergeFuncs(@, IF t.kind = "html" THEN funcMap ELSE registry)]

\* Load(loader), LoadHTML(loader): each template the loader lists is parsed
\* into the set, and the adapter is left pointing to the last one
RECURSIVE ParseAll(_, _)
ParseAll(tree, templates) ==
    IF templates = <<>> THEN tree
    ELSE ParseAll([tree EXCEPT !.name = Head(templates).name,
                               !.defs = MapSet(@, Head(templates).name,
                                               Head(templates).content)],
                  Tail(templates))

LoadHTML(t, ld) == [t EXCEPT !.loader = <<ld>>, !.tree = ParseAll(@, ld)]

\* for _, opt := range opts { opt(t) }
RECURSIVE TmplApply(_, _)
TmplApply(t, opts) ==
    IF opts = <<>> THEN t
    ELSE TmplApply(IF Head(opts).op = "SetFuncs" THEN SetFuncs(t, Head(opts).arg)
                   ELSE LoadHTML(t, Head(opts).arg),
                   Tail(opts))

\* NewHTML(tmpl, opts...), NewText(tmpl, opts...)
NewTemplate(kind, tmpl, opts) ==
    TmplApply([kind |-> kind, loader |-> New.loader, funcMap |-> New.funcMap,
               tree |-> tmpl], opts)

\* the loaders and the function maps the adapter is constructed with
TmplLoader == <<[name |-> "main", content |-> "m"], [name |-> "sub", content |-> "s"]>>
CallerFuncs == [f \in {"upper", "shout"} |-> "caller"]

TmplOptSeqs ==
    { <<>>,
      <<[op |-> "Load", arg |-> TmplLoader]>>,
      <<[op |-> "SetFuncs", arg |-> CallerFuncs]>>,
      <<[op |-> "SetFuncs", arg |-> CallerFuncs], [op |-> "Load", arg |-> TmplLoader]>> }

\* the arguments of a RenderContext call
CallInputs ==
    { [ctx |-> "live", opts |-> <<>>, data |-> "struct"],
      [ctx |-> "live", opts |-> <<[op |-> "Name", arg |-> "sub"]>>, data |-> "struct"],
      [ctx |-> "live", opts |-> <<[op |-> "Name", arg |-> "none"]>>, data |-> "struct"],
      [ctx |-> "live", opts |-> <<>>, data |-> "bad"],
      [ctx |-> "canceled", opts |-> <<>>, data |-> "struct"] }

NoCall == [pc |-> "idle", ctx |-> "live", opts |-> <<>>, data |-> "struct",
           options |-> <<>>, tpl |-> 0, out |-> <<>>, err |-> NoError]

\* t.Clone() handing back the set it was called on
TemplateClone_noCopy(trs, src, dst, kind) ==
    IF kind = "html" /\ trs[src][1].executed
    THEN [trees |-> trs, ref |-> dst, err |-> ErrClone]
    ELSE [trees |-> trs, ref |-> src, err |-> NoError]

\* t.Clone(): a copy of the set in a slot of its own; html/template refuses
\* to clone a set that has been executed
TemplateClone(trs, src, dst, kind) ==
    IF kind = "html" /\ trs[src][1].executed
    THEN [trees |-> trs, ref |-> dst, err |-> ErrClone]
    ELSE [trees |-> [trs EXCEPT ![dst] = <<[trs[src][1] EXCEPT !.executed = FALSE]>>],
          ref |-> dst, err |-> NoError]

\* tpl.Execute(w, data) when name is "", tpl.ExecuteTemplate(w, name, data)
\* otherwise; html/template escapes the set it executes
Execute(trs, ref, name, data, kind) ==
    LET tree == trs[ref][1]
        n == IF name = "" THEN tree.name ELSE name
        after == IF kind = "html" THEN [trs EXCEPT ![ref][1].executed = TRUE] ELSE trs
    IN CASE n \notin DOMAIN tree.defs ->
              [trees |-> after, out |-> <<>>, err |-> ErrNoTemplate]
         [] data = "bad" ->
              [trees |-> after, out |-> <<"partial">>, err |-> ErrEncode]
         [] OTHER ->
              [trees |-> after, out |-> <<kind, n, tree.defs[n], data>>, err |-> NoError]

\* the adapter after NewHTML or NewText, given a template that may have been
\* executed before, and no call on it yet
TmplInit ==
    \E kind \in TmplKinds, opts \in TmplOptSeqs, executed \in BOOLEAN :
       LET t == NewTemplate(kind, [TemplateNew("main") EXCEPT !.executed = executed], opts)
       IN /\ kind = "texttmpl" => ~executed
          /\ adapter = [kind |-> kind, loader |-> t.loader, funcMap |-> t.funcMap]
          /\ trees = [i \in 0..MaxCalls |-> IF i = 0 THEN <<t.tree>> ELSE <<>>]
          /\ built = [opts |-> opts, funcMap |-> t.funcMap, tree |-> t.tree]
          /\ calls = [i \in 1..MaxCalls |-> NoCall]

\* a goroutine calls RenderContext(ctx, w, data, opts...) on the adapter
T_Call(i) ==
    /\ UNCHANGED <<renderVars, loaderVars, storeVars, foldVars, fileVars>>
    /\ calls[i].pc = "idle"
    /\ \E args \in CallInputs :
          calls' = [calls EXCEPT ![i] = [NoCall EXCEPT !.pc = "t_check", !.ctx = args.ctx,
                                                       !.opts = args.opts, !.data = args.data]]
    /\ UNCHANGED <<adapter, trees, built>>

\* if err := render.CheckContext(ctx); err != nil { return err }
T_Check(i) ==
    /\ UNCHANGED <<renderVars, loaderVars, storeVars, foldVars, fileVars>>
    /\ calls[i].pc = "t_check"
    /\ LET c == calls[i]
       IN calls' = [calls EXCEPT ![i] =
                       IF CheckContext(c.ctx) # NoError
                       THEN [c EXCEPT !.pc = "t_done", !.err = CheckContext(c.ctx)]
                       ELSE [c EXCEPT !.pc = "t_options"]]
    /\ UNCHANGED <<adapter, trees, built>>

\* options := render.NewOptions().Use(render.MimeText...()).Use(opts...)
T_Options(i) ==
    /\ UNCHANGED <<renderVars, loaderVars, storeVars, foldVars, fileVars>>
    /\ calls[i].pc = "t_options"
    /\ LET c == calls[i]
       IN calls' = [calls EXCEPT ![i] =
                       [c EXCEPT !.pc = "t_clone",
                                 !.options = <<Fold(adapter.kind, c.opts, <<>>, EmptyMap).o>>]]
    /\ UNCHANGED <<adapter, trees, built>>

\* tpl, err := t.Clone(); if err != nil { return err }
T_Clone(i) ==
    /\ UNCHANGED <<renderVars, loaderVars, storeVars, foldVars, fileVars>>
    /\ calls[i].pc = "t_clone"
    /\ LET r == TemplateClone(trees, 0, i, adapter.kind)
       IN /\ trees' = r.trees
          /\ calls' = [calls EXCEPT ![i] =
                          IF r.err # NoError
                          THEN [calls[i] EXCEPT !.pc = "t_done", !.err = r.err]
                          ELSE [calls[i] EXCEPT !.pc = "t_execute", !.tpl = r.ref]]
    /\ UNCHANGED <<adapter, built>>

\* return tpl.Execute(w, data), or tpl.ExecuteTemplate(w, options.Name(), data)
T_Execute(i) ==
    /\ UNCHANGED <<renderVars, loaderVars, storeVars, foldVars, fileVars>>
    /\ calls[i].pc = "t_execute"
    /\ LET r == Execute(trees, calls[i].tpl, calls[i].options[1].name, calls[i].data,
                        adapter.kind)
       IN /\ trees' = r.trees
          /\ calls' = [calls EXCEPT ![i] = [calls[i] EXCEPT !.pc = "t_done", !.out = r.out,
                                                            !.err = r.err]]
    /\ UNCHANGED <<adapter, built>>

(***************************************************************************)
(* Specifications                                                          *)
(***************************************************************************)
\* no CompositeLoader is in use while a render call is followed
LoaderIdle ==
    /\ loaders = <<>>
    /\ lop = "new"
    /\ childLoads = <<>>
    /\ loadRes = NoLoad
    /\ readName = <<>>
    /\ readRes = NoResult
    /\ consulted = 0

\* no render call is in progress while a CompositeLoader is followed
RenderIdle ==
    /\ cfg = [kind |-> "text", buffered |-> FALSE, initialSize |-> 0, postRender |-> "nil",
              padding |-> FALSE, header |-> FALSE, data |-> "string", opts |-> <<>>]
    /\ ctx = "live"
    /\ pc = "done"
    /\ ipc = "a_done"
    /\ buf = <<>>
    /\ bufCap = 0
    /\ content = <<>>
    /\ sink = <<>>
    /\ sinkWrites = 0
    /\ ret = NoError
    /\ iret = NoError
    /\ options = <<>>
    /\ captured = <<>>
    /\ cancelAt = "never"
    /\ steps = <<>>

\* no Options value is followed in storage
StoreIdle ==
    /\ mem = NewMem
    /\ prev = NewMem
    /\ olog = <<>>

\* no sequence of folds is followed
FoldIdle ==
    /\ cells = EmptyMap
    /\ folded = <<>>
    /\ fcall = [kind |-> "text", opts |-> <<>>]

\* no FSLoader or EmbedLoader is followed
FileIdle ==
    /\ disk = {}
    /\ floader = [kind |-> "none", root |-> [abs |-> FALSE, segs |-> <<>>]]
    /\ fname = <<>>
    /\ fres = NoRead

\* no template adapter is followed
TmplIdle ==
    /\ adapter = [kind |-> "none", loader |-> <<>>, funcMap |-> EmptyMap]
    /\ trees = <<>>
    /\ built = [opts |-> <<>>, funcMap |-> EmptyMap, tree |-> TemplateNew("")]
    /\ calls = <<>>

Init == RenderInit /\ LoaderIdle /\ StoreIdle /\ FoldIdle /\ FileIdle /\ TmplIdle

Next ==
    \/ A_Check
    \/ A_Options
    \/ A_Pre
    \/ A_Encode
    \/ A_Defer
    \/ B_Check1
    \/ B_Inner
    \/ B_Check2
    \/ B_Post
    \/ B_Check3
    \/ B_Write
    \/ Cancel

Spec == Init /\ [][Next]_vars

LoaderNext ==
    \/ Load
    \/ Read

InitLoader == LoaderInit /\ RenderIdle /\ StoreIdle /\ FoldIdle /\ FileIdle /\ TmplIdle

SpecLoader == InitLoader /\ [][LoaderNext]_vars

OptionsNext ==
    \/ O_New
    \/ O_Use
    \/ O_Clone
    \/ O_Reset
    \/ O_SetParam
    \/ O_SetHeader
    \/ O_AddHeader
    \/ O_SetHeaderValue
    \/ O_SetArg

InitOptions == StoreInit /\ RenderIdle /\ LoaderIdle /\ FoldIdle /\ FileIdle /\ TmplIdle

SpecOptions == InitOptions /\ [][OptionsNext]_vars

FoldNext == F_Render

InitFold == FoldInit /\ RenderIdle /\ LoaderIdle /\ StoreIdle /\ FileIdle /\ TmplIdle

SpecFold == InitFold /\ [][FoldNext]_vars

FileNext ==
    \/ FSRead
    \/ EmbedRead

InitFile == FileInit /\ RenderIdle /\ LoaderIdle /\ StoreIdle /\ FoldIdle /\ TmplIdle

SpecFile == InitFile /\ [][FileNext]_vars

TmplNext ==
    \/ \E i \in 1..MaxCalls : T_Call(i)
    \/ \E i \in 1..MaxCalls : T_Check(i)
    \/ \E i \in 1..MaxCalls : T_Options(i)
    \/ \E i \in 1..MaxCalls : T_Clone(i)
    \/ \E i \in 1..MaxCalls : T_Execute(i)

InitTmpl == TmplInit /\ RenderIdle /\ LoaderIdle /\ StoreIdle /\ FoldIdle /\ FileIdle

SpecTmpl == InitTmpl /\ [][TmplNext]_vars

(***************************************************************************)
(* Properties of the render call                                           *)
(***************************************************************************)
Done == pc = "done"

\* the last step the call took
LastStep == IF steps = <<>> THEN "none" ELSE steps[Len(steps)]

\* err wraps cause: cause is matched through err, and err is not cause itself
Wraps(err, cause) == cause # NoError /\ err # cause /\ ErrorsIs(err, cause)

\* nothing has reached the caller's writer, and its Write was never called
SinkUntouched == sink = <<>> /\ sinkWrites = 0

\* the bytes the adapter writes when every step of it succeeds
AdapterOutput ==
    (IF cfg.kind = "json" /\ cfg.padding THEN <<"padding", "(">> ELSE <<>>)
    \o (IF cfg.kind = "xml" /\ cfg.header THEN <<XMLHeader>> ELSE <<>>)
    \o Encoded(cfg.kind, cfg.data, options[1])
    \o (IF cfg.kind = "json" /\ cfg.padding THEN <<")">> ELSE <<>>)

\* C1: when the renderer wrapped by BufferRenderer has written bytes and then
\* returned an error, the real sink has received nothing and the call returns
\* an error that wraps the inner renderer's error.
C1_BufferAtomicity ==
    (cfg.buffered /\ Done /\ iret # NoError /\ buf # <<>>)
        => (SinkUntouched /\ Wraps(ret, iret))

C1_Witness ==
    /\ cfg.buffered /\ Done
    /\ cfg.kind = "html" /\ cfg.data = "bad"
    /\ buf = <<"partial">>
    /\ iret = ErrEncode
    /\ ret = <<"buffer render", "encode error">>
    /\ SinkUntouched

\* C2 as claimed: whenever the token is signaled before the final write of a
\* BufferRenderer call, nothing reaches the real sink and the returned error
\* matches the token's reason.
C2_CancelBeforeWrite ==
    (cfg.buffered /\ Done /\ cancelAt # "never")
        => (SinkUntouched /\ ErrorsIs(ret, CtxErr(ctx)))

\* C2 as amended: when the token is signaled before BufferRenderer's final
\* cancellation check, nothing reaches the real sink and the call fails, with
\* the token's reason unless the inner renderer or the transform failed with
\* an error of its own, which is then the one returned, wrapped.
C2_CancelBeforeFinalCheck ==
    (cfg.buffered /\ Done /\ cancelAt \notin {"never", "b_write"})
        => /\ SinkUntouched
           /\ \/ ErrorsIs(ret, CtxErr(ctx))
              \/ Wraps(ret, iret)
              \/ (LastStep = "b_post" /\ Wraps(ret, ErrPostRender))

C2_Witness ==
    /\ cfg.buffered /\ Done
    /\ cfg.postRender = "wrap"
    /\ cancelAt = "b_post"
    /\ iret = NoError /\ buf # <<>>
    /\ ret = Canceled
    /\ SinkUntouched

\* C3: a RenderContext entered with a token that is already signaled returns
\* the token's error at once: no option is folded, nothing is written. This
\* holds of the outermost call, for every adapter and for BufferRenderer, and
\* of the adapter BufferRenderer wraps.
C3_PreCanceled ==
    /\ (Done /\ cancelAt = "before")
          => /\ ret = CtxErr(ctx)
             /\ steps = <<IF cfg.buffered THEN "b_check1" ELSE "a_check">>
             /\ SinkUntouched /\ buf = <<>>
             /\ options = <<>> /\ captured = <<>>
    /\ (ipc = "a_done" /\ cancelAt \in {"before", "a_check"})
          => /\ iret = CtxErr(ctx)
             /\ SinkUntouched /\ buf = <<>>
             /\ options = <<>> /\ captured = <<>>

C3_Witness ==
    /\ ~cfg.buffered /\ Done
    /\ cfg.kind = "csv" /\ cfg.data = "records"
    /\ cfg.opts = <<[op |-> "CaptureOptions"]>>
    /\ cancelAt = "before"
    /\ ret = DeadlineExceeded
    /\ SinkUntouched /\ captured = <<>>

\* C4: an error a RenderContext call returns because of cancellation or
\* deadline expiry is the token's error itself, not a wrapper of it, also
\* when BufferRenderer's inner renderer is the one that detected the token.
C4_CancellationUnwrapped ==
    (Done /\ ctx # "live" /\ ErrorsIs(ret, CtxErr(ctx))) => ret = CtxErr(ctx)

\* C5: when the PostRender transform fails, nothing is written to the real
\* sink and the call returns the transform's error wrapped with
\* post-processing context.
C5_PostRenderError ==
    (cfg.buffered /\ Done /\ LastStep = "b_post")
        => /\ SinkUntouched
           /\ Wraps(ret, PostRender(cfg.postRender, content).err)
           /\ Head(ret) = "post-processing"

C5_Witness ==
    /\ cfg.buffered /\ Done
    /\ cfg.postRender = "fail"
    /\ LastStep = "b_post"
    /\ buf # <<>>
    /\ ret = <<"post-processing", "post-process error">>
    /\ SinkUntouched

\* C6: a BufferRenderer call that succeeds has delivered, in one Write, the
\* bytes the inner renderer produced, or the transform of them when one is
\* configured, whatever InitialSize is.
C6_BufferDelivery ==
    (cfg.buffered /\ Done /\ ret = NoError)
        => /\ buf = AdapterOutput
           /\ sink = IF cfg.postRender = "nil" THEN buf
                     ELSE PostRender(cfg.postRender, buf).out
           /\ sinkWrites = 1

C6_Witness ==
    /\ cfg.buffered /\ Done /\ ret = NoError
    /\ cfg.initialSize = 1
    /\ cfg.postRender = "wrap"
    /\ cfg.kind = "json" /\ cfg.padding /\ cfg.data = "struct"
    /\ sink = <<"<", "padding", "(", "json", "struct", ")", ">">>
    /\ bufCap = 5

(***************************************************************************)
(* Properties of CompositeLoader                                           *)
(***************************************************************************)
\* the names a sequence holds
Range(seq) == {seq[i] : i \in DOMAIN seq}

\* the first child whose Load returned name, and where in its result
FirstChild(name) ==
    CHOOSE i \in DOMAIN childLoads :
        /\ name \in Range(childLoads[i].names)
        /\ \A j \in 1..(i - 1) : name \notin Range(childLoads[j].names)

FirstIndex(names, name) ==
    CHOOSE i \in DOMAIN names : names[i] = name /\ \A j \in 1..(i - 1) : names[j] # name

\* the children whose Read(name) succeeds
Holders(name) == {i \in DOMAIN loaders : ChildRead(loaders[i], name).err = NoError}

\* C7: a successful CompositeLoader.Load returns each distinct name the
\* children returned exactly once, ordered by the first child that returned it
\* and, within one child, by where that child first listed it.
C7_LoadOrder ==
    (lop = "Load" /\ loadRes.err = NoError)
        => LET t == loadRes.templates
           IN /\ Len(childLoads) = Len(loaders)
              /\ Range(t) = UNION {Range(childLoads[i].names) : i \in DOMAIN childLoads}
              /\ \A p, q \in DOMAIN t : p # q => t[p] # t[q]
              /\ \A p, q \in DOMAIN t :
                    p < q =>
                       \/ FirstChild(t[p]) < FirstChild(t[q])
                       \/ /\ FirstChild(t[p]) = FirstChild(t[q])
                          /\ FirstIndex(childLoads[FirstChild(t[p])].names, t[p])
                                < FirstIndex(childLoads[FirstChild(t[q])].names, t[q])

C7_Witness ==
    /\ lop = "Load"
    /\ Len(childLoads) = 2
    /\ childLoads[1].names = <<(<<"x", ".html">>)>>
    /\ childLoads[2].names = <<(<<"y", ".txt">>), (<<"x", ".html">>)>>
    /\ loadRes.err = NoError
    /\ loadRes.templates = <<(<<"x", ".html">>), (<<"y", ".txt">>)>>

\* C8: when some child's Read(name) succeeds, CompositeLoader.Read returns
\* the content of the lowest-index such child and consults no child after it.
C8_ReadFirstSuccess ==
    (lop = "Read" /\ Holders(readName) # {})
        => LET first == CHOOSE i \in Holders(readName) : \A j \in Holders(readName) : i <= j
           IN /\ readRes.err = NoError
              /\ readRes.content = ChildRead(loaders[first], readName).content
              /\ consulted = first

C8_Witness ==
    /\ lop = "Read"
    /\ Len(loaders) = 2
    /\ loaders[1].kind = "string" /\ loaders[1].templates = [n \in {<<"x", ".html">>} |-> "A"]
    /\ loaders[2].kind = "string" /\ loaders[2].templates = [n \in Names |-> "B"]
    /\ readName = <<"x", ".html">>
    /\ readRes = [content |-> <<"A">>, err |-> NoError, consulted |-> 1]

\* C9: when every child's Read(name) fails, CompositeLoader.Read fails; the
\* error matches ErrTemplateNotFound when the last child's error does, and
\* otherwise wraps the last child's error without matching ErrTemplateNotFound.
C9_ReadLastError ==
    (lop = "Read" /\ Len(loaders) > 0 /\ Holders(readName) = {})
        => LET last == ChildRead(loaders[Len(loaders)], readName).err
           IN /\ readRes.content = <<>>
              /\ consulted = Len(loaders)
              /\ IF ErrorsIs(last, ErrTemplateNotFound)
                 THEN ErrorsIs(readRes.err, ErrTemplateNotFound)
                 ELSE /\ Wraps(readRes.err, last)
                      /\ ~ErrorsIs(readRes.err, ErrTemplateNotFound)

C9_Witness ==
    /\ lop = "Read"
    /\ Len(loaders) = 2
    /\ loaders[1].kind = "string"
    /\ loaders[2].kind = "error"
    /\ readName = <<"x", ".html">>
    /\ readRes.err = <<"composite read error", "read failed">>

\* C10: CompositeLoader.Read reports ErrTemplateNotFound only when every
\* child's failure was itself of that kind.
C10_NotFoundOnlyIfAll ==
    (lop = "Read" /\ ErrorsIs(readRes.err, ErrTemplateNotFound))
        => \A i \in DOMAIN loaders :
              ErrorsIs(ChildRead(loaders[i], readName).err, ErrTemplateNotFound)

\* C11: a CompositeLoader built with an empty child list returns an empty
\* name list and no error from Load, and every Read(name) on it fails with an
\* error that matches ErrTemplateNotFound.
C11_EmptyComposite ==
    /\ (lop = "Load" /\ loaders = <<>>)
          => (loadRes.templates = <<>> /\ loadRes.err = NoError)
    /\ (lop = "Read" /\ loaders = <<>>)
          => (readRes.content = <<>> /\ ErrorsIs(readRes.err, ErrTemplateNotFound))

(***************************************************************************)
(* Properties of Options                                                   *)
(***************************************************************************)
\* what Name(), Timeout(), Format(), Params() and Header() show of the struct at p
OptionsValue(m, p) ==
    LET o == m.objs[p]
    IN [name |-> o.name, timeout |-> o.timeout,
        format |-> [o.format EXCEPT !.args = SliceOf(m, o.format.args)],
        params |-> IF o.params = Nil THEN EmptyMap ELSE m.params[o.params],
        header |-> IF o.header = Nil THEN EmptyMap
                   ELSE [k \in DOMAIN m.headers[o.header] |-> m.slices[m.headers[o.header][k]]]]

\* the backing arrays the struct at p reaches
SliceRefs(m, p) ==
    LET o == m.objs[p]
    IN (IF o.header = Nil THEN {}
        ELSE {m.headers[o.header][k] : k \in DOMAIN m.headers[o.header]})
       \cup (IF o.format.args = Nil THEN {} ELSE {o.format.args})

\* the structs at a and b share no map and no backing array
NoSharedStorage(m, a, b) ==
    /\ m.objs[a].params = Nil \/ m.objs[a].params # m.objs[b].params
    /\ m.objs[a].header = Nil \/ m.objs[a].header # m.objs[b].header
    /\ SliceRefs(m, a) \cap SliceRefs(m, b) = {}

\* the last operation performed
LastOp == olog[Len(olog)]

\* the operations that write through Params(), Header() or an args slice
Mutations == {"SetParam", "SetHeader", "AddHeader", "SetHeaderValue", "SetArg"}

\* the structs that are the source or the result of a Clone of the struct at p
ClonePartners(p) ==
    {olog[i].q : i \in {j \in DOMAIN olog : olog[j].op = "Clone" /\ olog[j].p = p}}
    \cup {olog[i].p : i \in {j \in DOMAIN olog : olog[j].op = "Clone" /\ olog[j].q = p}}

\* C12: Clone returns a copy that is equal to the original on every field
\* and shares no storage with it; after cloning, a write through the params,
\* the header (a new key, a replaced, extended or overwritten value list) or
\* the format args of one of the two leaves the other unchanged.
C12_CloneIndependence ==
    olog # <<>> =>
        /\ LastOp.op = "Clone" =>
              /\ OptionsValue(mem, LastOp.q) = OptionsValue(mem, LastOp.p)
              /\ OptionsValue(mem, LastOp.p) = OptionsValue(prev, LastOp.p)
              /\ NoSharedStorage(mem, LastOp.p, LastOp.q)
        /\ LastOp.op \in Mutations =>
              \A c \in ClonePartners(LastOp.p) :
                  OptionsValue(mem, c) = OptionsValue(prev, c)

C12_Witness ==
    /\ Len(olog) = 3
    /\ olog[1].op = "Use" /\ olog[1].p = 1
    /\ olog[2] = [op |-> "Clone", p |-> 1, q |-> 2, opts |-> <<>>]
    /\ olog[3].op = "SetHeaderValue" /\ olog[3].p = 2
    /\ OptionsValue(mem, 1).header = [k \in {"X-Test"} |-> <<(<<"a">>), (<<"b">>)>>]
    /\ OptionsValue(mem, 2).header = [k \in {"X-Test"} |-> <<(<<"z">>), (<<"b">>)>>]

\* o.Use(c1).Use(c2)...: the option functions applied one call at a time
RECURSIVE OneByOne(_, _, _)
OneByOne(m, p, opts) ==
    IF opts = <<>> THEN m
    ELSE OneByOne(OptionsUse(m, p, <<Head(opts)>>), p, Tail(opts))

\* the option functions of opts with every With(...) replaced by its arguments
RECURSIVE Flatten(_)
Flatten(opts) ==
    IF opts = <<>> THEN <<>>
    ELSE (IF Head(opts).op = "With" THEN Flatten(Head(opts).arg) ELSE <<Head(opts)>>)
         \o Flatten(Tail(opts))

\* the formatters the Format(...) of opts apply, in order
RECURSIVE Formatters(_)
Formatters(opts) ==
    IF opts = <<>> THEN <<>>
    ELSE (IF Head(opts).op = "Format" THEN Head(opts).arg ELSE <<>>) \o Formatters(Tail(opts))

\* the argument of the last op of s, or old when s has none
LastArg(s, op, old) ==
    LET w == SelectSeq(s, LAMBDA x : x.op = op)
    IN IF w = <<>> THEN old ELSE w[Len(w)].arg

\* each Format(f) of fs on its own
EachFormat(fs) == [i \in DOMAIN fs |-> [op |-> "Format", arg |-> <<fs[i]>>]]

\* C13: Use applies its option functions to the receiver from left to right
\* and returns the receiver; each field ends with the value the last option
\* function that sets it wrote; With(c1..cn) and Format(f1..fn) have the
\* effect of their arguments applied one by one in order.
C13_UseLeftToRight ==
    (olog # <<>> /\ LastOp.op = "Use") =>
        LET p == LastOp.p
            opts == LastOp.opts
            flat == Flatten(opts)
            fs == Formatters(flat)
            old == OptionsValue(prev, p)
            new == OptionsValue(mem, p)
        IN /\ LastOp.q = p
           /\ mem = OneByOne(prev, p, opts)
           /\ new.name = LastArg(flat, "Name", old.name)
           /\ new.timeout = LastArg(flat, "Timeout", old.timeout)
           /\ new.format.prefix = LastArg(fs, "Prefix", old.format.prefix)
           /\ new.format.indent = LastArg(fs, "Indent", old.format.indent)
           /\ new.format.lineEnding = LastArg(fs, "LineEnding", old.format.lineEnding)
           /\ \A i \in DOMAIN opts :
                 /\ opts[i].op = "With" =>
                       OptionsApply(prev, p, opts[i]) = OneByOne(prev, p, opts[i].arg)
                 /\ opts[i].op = "Format" =>
                       OptionsApply(prev, p, opts[i]) = OneByOne(prev, p, EachFormat(opts[i].arg))

C13_Witness ==
    /\ Len(olog) = 2
    /\ olog[1].op = "Use" /\ olog[1].p = 1 /\ Len(olog[1].opts) = 1
    /\ olog[1].opts[1].op = "With"
    /\ olog[2].op = "Use" /\ olog[2].p = 1 /\ olog[2].q = 1
    /\ Len(olog[2].opts) = 2 /\ olog[2].opts[1].op = "Format"
    /\ OptionsValue(prev, 1).name = "u"
    /\ OptionsValue(mem, 1).format.prefix = "b"
    /\ OptionsValue(mem, 1).format.pretty
    /\ OptionsValue(mem, 1).name = "u"

\* C14: after NewOptions(), and after Reset() on an Options in any prior
\* state, name is empty, timeout is zero, pretty is false, indent is empty,
\* and header and params are non-nil maps with no entries.
C14_ResetDefaults ==
    (olog = <<>> \/ LastOp.op \in {"New", "Reset"}) =>
        LET o == mem.objs[IF olog = <<>> THEN 1 ELSE LastOp.q]
        IN /\ o.name = "" /\ o.timeout = 0
           /\ ~o.format.pretty /\ o.format.indent = ""
           /\ o.params # Nil /\ mem.params[o.params] = EmptyMap
           /\ o.header # Nil /\ mem.headers[o.header] = EmptyMap

C14_Witness ==
    /\ Len(olog) = 3
    /\ olog[1].op = "Use" /\ olog[1].p = 1 /\ olog[1].opts[1].op = "Timeout"
    /\ olog[2].op = "SetHeader" /\ olog[2].p = 1
    /\ olog[3].op = "Reset" /\ olog[3].p = 1
    /\ OptionsValue(prev, 1).timeout = 5
    /\ OptionsValue(prev, 1).params = [k \in {"k"} |-> "v"]
    /\ DOMAIN OptionsValue(prev, 1).header = {"X-Test"}
    /\ OptionsValue(mem, 1).params = EmptyMap
    /\ OptionsValue(mem, 1).header = EmptyMap

\* C15: FormatOptions.LineEnding() never returns the empty string: it returns
\* "\n" when the stored line ending is empty and the stored value otherwise;
\* the default is applied on reading only: Reset stores the empty string, and
\* Clone stores what the source stores, the empty string included.
C15_LineEndingDefault ==
    /\ \A p \in DOMAIN mem.objs :
          LET f == mem.objs[p].format
          IN /\ LineEnding(f) # ""
             /\ LineEnding(f) = (IF f.lineEnding = "" THEN "\n" ELSE f.lineEnding)
    /\ (olog # <<>> /\ LastOp.op \in {"New", "Reset"})
          => mem.objs[LastOp.q].format.lineEnding = ""
    /\ (olog # <<>> /\ LastOp.op = "Clone")
          => /\ mem.objs[LastOp.q].format.lineEnding = prev.objs[LastOp.p].format.lineEnding
             /\ mem.objs[LastOp.p].format.lineEnding = prev.objs[LastOp.p].format.lineEnding

C15_Witness ==
    /\ Len(olog) = 3
    /\ olog[1].op = "New" /\ olog[1].q = 2
    /\ olog[2].op = "Use" /\ olog[2].p = 1 /\ olog[2].opts = <<UseCRLF>>
    /\ olog[3] = [op |-> "Clone", p |-> 2, q |-> 3, opts |-> <<>>]
    /\ LineEnding(mem.objs[1].format) = "\r\n"
    /\ mem.objs[3].format.lineEnding = ""
    /\ LineEnding(mem.objs[3].format) = "\n"

\* the places of the CaptureOptions among the arguments of a Use
Captures(opts) == {i \in DOMAIN opts : opts[i].op = "CaptureOptions"}

\* C17: CaptureOptions(target) stores in target a clone of the Options as
\* they are when it runs: the value the option functions before it have
\* produced, without the effects of those after it; an operation on the live
\* Options, or on any other, leaves the captured value unchanged, and an
\* operation on the captured value leaves every other Options unchanged.
C17_CaptureSnapshot ==
    olog # <<>> =>
        /\ (LastOp.op = "Use" /\ Captures(LastOp.opts) # {}) =>
              LET i == CHOOSE x \in Captures(LastOp.opts) :
                           \A y \in Captures(LastOp.opts) : y <= x
                  before == OptionsUse(prev, LastOp.p, SubSeq(LastOp.opts, 1, i - 1))
              IN /\ mem.target \in DOMAIN mem.objs
                 /\ mem.target \notin DOMAIN prev.objs
                 /\ OptionsValue(mem, mem.target) = OptionsValue(before, LastOp.p)
                 /\ NoSharedStorage(mem, LastOp.p, mem.target)
        /\ (prev.target # Nil /\ LastOp.p # prev.target) =>
              OptionsValue(mem, prev.target) = OptionsValue(prev, prev.target)
        /\ (prev.target # Nil /\ LastOp.p = prev.target) =>
              \A q \in DOMAIN prev.objs \ {prev.target} :
                  OptionsValue(mem, q) = OptionsValue(prev, q)

C17_Witness ==
    /\ Len(olog) = 3
    /\ olog[1].op = "Use" /\ olog[1].p = 1
    /\ olog[1].opts = <<[op |-> "Name", arg |-> "t"], [op |-> "CaptureOptions"],
                        [op |-> "Name", arg |-> "u"]>>
    /\ olog[2].op = "SetParam" /\ olog[2].p = 1
    /\ olog[3].op = "SetHeader" /\ olog[3].p = 2
    /\ mem.target = 2
    /\ OptionsValue(mem, 2).name = "t" /\ OptionsValue(mem, 1).name = "u"
    /\ OptionsValue(mem, 2).params = EmptyMap /\ OptionsValue(mem, 1).params # EmptyMap
    /\ OptionsValue(mem, 2).header # EmptyMap /\ OptionsValue(mem, 1).header = EmptyMap

\* C18: WriteResponse copies every header key of the Options, with every one
\* of its values in the same order, to the header of the response.
C18_WriteResponseCopies ==
    (olog # <<>> /\ LastOp.op = "Use" /\ LastOp.opts = <<[op |-> "WriteResponse"]>>) =>
        LET h == OptionsValue(mem, LastOp.p).header
        IN \A k \in DOMAIN h : k \in DOMAIN mem.resp /\ mem.resp[k] = h[k]

(***************************************************************************)
(* Properties of the adapters' fold                                        *)
(***************************************************************************)
\* (*Options).ContentType
ContentType(o) ==
    IF "Content-Type" \in DOMAIN o.header /\ o.header["Content-Type"] # <<>>
    THEN o.header["Content-Type"][1] ELSE <<>>

\* the Mime option functions of opts, in order
MimeOpts(opts) == SelectSeq(Flatten(opts), LAMBDA x : x.op \in {"Mime", "MimeStored"})

\* the media type each adapter sets by default
DefaultMediaType(kind) ==
    CASE kind \in {"text", "texttmpl"} -> "text/plain"
      [] kind = "html" -> "text/html"
      [] kind = "json" -> "application/json"
      [] kind = "xml" -> "application/xml"
      [] kind = "csv" -> "text/csv"

\* C16: at the end of an adapter's fold the Options hold the adapter's
\* default Content-Type, with charset=utf-8, when the caller passed no Mime
\* option function, and otherwise the content type of the caller's last Mime
\* option function: the media type it was built with, and its charset.
C16_ContentTypeDefaults ==
    folded # <<>> =>
        LET ms == MimeOpts(fcall.opts)
        IN ContentType(folded[1]) =
              IF ms = <<>> THEN <<DefaultMediaType(fcall.kind), "charset", "utf-8">>
              ELSE MimeValue(ms[Len(ms)].arg, ms[Len(ms)].charset)

(***************************************************************************)
(* Properties of FSLoader and EmbedLoader                                  *)
(***************************************************************************)
\* the file or directory at segs is the root directory or lies under it
InsideRoot(root, segs) ==
    Len(root.segs) <= Len(segs) /\ SubSeq(segs, 1, Len(root.segs)) = root.segs

\* C19: FSLoader.Read and EmbedLoader.Read fail with ErrPathTraversal and
\* return no content for every name that resolves to a path outside the
\* root, the parent directory and a sibling whose name starts with the
\* root's name included; neither returns the content of a file outside it.
C19_PathTraversal ==
    fname # <<>> =>
        /\ ~InsideRoot(floader.root, JoinClean(floader.root, fname).segs)
              => (fres.content = <<>> /\ ErrorsIs(fres.err, ErrPathTraversal))
        /\ fres.content # <<>> => InsideRoot(floader.root, fres.opened)

(***************************************************************************)
(* Properties of the CSV adapter                                           *)
(***************************************************************************)
\* C20: a call of the CSV adapter that has passed its entry check returns
\* ErrInvalidData for every data value that is not a [][]string (a string,
\* a struct, nil, a map), whatever the option functions are, and has written
\* no byte to its writer: none to the sink, none to BufferRenderer's buffer.
C20_CSVInvalidData ==
    (cfg.kind = "csv" /\ cfg.data # "records" /\ ipc = "a_done"
        /\ "a_options" \in Range(steps))
        => /\ iret = ErrInvalidData
           /\ SinkUntouched /\ buf = <<>>
           /\ (Done /\ ~cfg.buffered) => ret = ErrInvalidData

C20_Witness ==
    /\ cfg.kind = "csv" /\ cfg.data = "nil" /\ ~cfg.buffered
    /\ cfg.opts = <<Separator(";")>>
    /\ Done
    /\ options # <<>> /\ MapGet(options[1].params, "separator") = ";"
    /\ ret = ErrInvalidData
    /\ SinkUntouched

(***************************************************************************)
(* Properties of the adapters called without BufferRenderer                *)
(***************************************************************************)
\* C21: when the encoder of an adapter called without BufferRenderer fails,
\* the sink holds at most what the encoder itself flushed before failing:
\* not the XML declaration, not the JSON padding prefix, not the closing
\* parenthesis, which are bytes the adapter writes itself.
C21_OnlyEncoderBytesOnFailure ==
    (~cfg.buffered /\ Done /\ ret = ErrEncode)
        => sink \in {<<>>, <<"partial">>}

(***************************************************************************)
(* Properties of the template adapters                                     *)
(***************************************************************************)
\* what a call returns when it is the only call on the adapter as it was
\* constructed
AloneResult(c) ==
    IF CheckContext(c.ctx) # NoError
    THEN [out |-> <<>>, err |-> CheckContext(c.ctx)]
    ELSE LET o == Fold(adapter.kind, c.opts, <<>>, EmptyMap).o
             own == [i \in 0..1 |-> IF i = 0 THEN <<built.tree>> ELSE <<>>]
             cl == TemplateClone(own, 0, 1, adapter.kind)
         IN IF cl.err # NoError
            THEN [out |-> <<>>, err |-> cl.err]
            ELSE LET r == Execute(cl.trees, cl.ref, o.name, c.data, adapter.kind)
                 IN [out |-> r.out, err |-> r.err]

\* C22: RenderContext calls that overlap on one HTML or Text template adapter
\* are independent: the adapter's template set and function registry stay as
\* the constructor left them, the Options a call folded stay the fold of its
\* own option functions, and a finished call has the output and the error it
\* would have had alone.
C22_IndependentCalls ==
    adapter.kind \in TmplKinds =>
        /\ trees[0] = <<built.tree>>
        /\ adapter.funcMap = built.funcMap
        /\ \A i \in DOMAIN calls :
              /\ calls[i].options # <<>> =>
                    calls[i].options = <<Fold(adapter.kind, calls[i].opts, <<>>, EmptyMap).o>>
              /\ calls[i].pc = "t_done" =>
                    [out |-> calls[i].out, err |-> calls[i].err] = AloneResult(calls[i])

C22_Witness ==
    /\ adapter.kind = "html"
    /\ calls[1].pc = "t_done" /\ calls[2].pc = "t_done"
    /\ calls[1].out = <<"html", "sub", "s", "struct">>
    /\ calls[2].out = <<"html", "sub", "s", "bad">> \/ calls[2].out = <<"partial">>
    /\ calls[2].err = ErrEncode
    /\ trees[1] # <<>> /\ trees[1][1].executed
    /\ trees[2] # <<>> /\ trees[2][1].executed
    /\ ~trees[0][1].executed

\* the functions the caller gave the constructor
Supplied ==
    { f \in DOMAIN CallerFuncs :
         \E k \in DOMAIN built.opts : built.opts[k].op = "SetFuncs"
                                        /\ f \in DOMAIN built.opts[k].arg }

\* C23: every function of DefaultFuncs() is in the function registry of a
\* template adapter from construction on, without the caller registering it,
\* and a name the caller supplied a function for holds the caller's function.
C23_DefaultFuncsRegistered ==
    adapter.kind \in TmplKinds =>
        /\ \A f \in DOMAIN DefaultFuncs :
              /\ f \in DOMAIN adapter.funcMap
              /\ adapter.funcMap[f] = IF f \in Supplied THEN "caller" ELSE "default"
        /\ \A f \in Supplied : adapter.funcMap[f] = "caller"

(***************************************************************************)
(* Properties of the Text adapter                                          *)
(***************************************************************************)
\* C24: a Text adapter call that succeeds has written the rendered text
\* followed, when pretty is set, by exactly one line ending, the one
\* FormatOptions.LineEnding() reports, and by nothing when pretty is unset.
C24_PrettyLineEnding ==
    (cfg.kind = "text" /\ ~cfg.buffered /\ Done /\ ret = NoError)
        => sink = <<cfg.data>> \o (IF options[1].format.pretty
                                   THEN <<LineEnding(options[1].format)>>
                                   ELSE <<>>)

(***************************************************************************)
(* Properties of the timeout                                               *)
(***************************************************************************)
\* the bytes the adapter writes, were its folded options o
OutputWith(o) ==
    (IF cfg.kind = "json" /\ cfg.padding THEN <<"padding", "(">> ELSE <<>>)
    \o (IF cfg.kind = "xml" /\ cfg.header THEN <<XMLHeader>> ELSE <<>>)
    \o Encoded(cfg.kind, cfg.data, o)
    \o (IF cfg.kind = "json" /\ cfg.padding THEN <<")">> ELSE <<>>)

BufferSteps == {"b_check1", "b_inner", "b_check2", "b_post", "b_check3", "b_write"}

\* the steps of BufferRenderer.RenderContext, in the order of its code
BufferOrder ==
    IF cfg.postRender # "nil"
    THEN <<"b_check1", "b_inner", "b_check2", "b_post", "b_check3", "b_write">>
    ELSE <<"b_check1", "b_inner", "b_check3", "b_write">>

\* s is the beginning of t
BeginningOf(s, t) == Len(s) <= Len(t) /\ s = SubSeq(t, 1, Len(s))

\* C26: the steps of one BufferRenderer.RenderContext call are a beginning of
\* the fixed order (check, inner render, with a transform a check and the
\* transform, check, write), the inner renderer runs between the first check
\* and the moment it returns and never after a failed first check, a call
\* that ended before the order was through ended on an error, the transform
\* never runs after a failed inner render, and the sink's Write is called at
\* most once, as the last step.
C26_FixedOrder ==
    cfg.buffered =>
        LET own == SelectSeq(steps, LAMBDA s : s \in BufferSteps)
        IN /\ BeginningOf(own, BufferOrder)
           /\ \A i \in DOMAIN steps :
                 steps[i] \notin BufferSteps =>
                    /\ steps[1] = "b_check1" /\ i > 1
                    /\ \A j \in 1..i : steps[j] # "b_inner"
           /\ cancelAt \in {"before", "b_check1"} => Len(steps) <= 1
           /\ (Done /\ own # BufferOrder) => ret # NoError
           /\ iret # NoError => "b_post" \notin Range(steps) /\ sinkWrites = 0
           /\ sinkWrites <= 1
           /\ sinkWrites = 1 => LastStep = "b_write"

C26_Witness ==
    /\ cfg.buffered /\ cfg.postRender = "wrap" /\ cfg.kind = "text"
    /\ Done /\ ret = NoError
    /\ steps = <<"b_check1", "a_check", "a_options", "a_encode", "b_inner",
                 "b_check2", "b_post", "b_check3", "b_write">>
    /\ sinkWrites = 1

(***************************************************************************)
(* Properties of the cancellation checkpoints                              *)
(***************************************************************************)
\* C27: a token signaled after one step of a multi-step adapter stops the
\* call before the next step. Under BufferRenderer, a token signaled once the
\* inner renderer has returned lets neither the transform nor the write run,
\* and one signaled once the transform has returned lets the write not run;
\* in the JSON adapter with padding, a token signaled once the padding prefix
\* is written lets the encoder not run, and one signaled once the data is
\* encoded lets the closing parenthesis not be written.
C27_PollBeforeEachStep ==
    /\ (cfg.buffered /\ cancelAt \in {"a_done", "b_check2"})
          => /\ "b_post" \notin Range(steps)
             /\ "b_write" \notin Range(steps)
    /\ (cfg.buffered /\ cancelAt = "b_check3") => "b_write" \notin Range(steps)
    /\ (cfg.kind = "json" /\ cfg.padding /\ cancelAt = "a_encode")
          => "a_encode" \notin Range(steps)
    /\ (cfg.kind = "json" /\ cfg.padding /\ cancelAt = "a_defer")
          => "a_defer" \notin Range(steps)

(***************************************************************************)
(* Properties of a Mime option function applied more than once             *)
(***************************************************************************)
\* C28: the option function m := Mime("text/stored", "utf-8") kept by the
\* caller sets the same Content-Type each time it is applied: whenever it is
\* the last Mime option function of a fold, the first fold or a later one,
\* the Options hold text/stored with charset=utf-8.
C28_MimeReusable ==
    (folded # <<>> /\ fcall.opts # <<>> /\ fcall.opts[Len(fcall.opts)] = StoredMime)
        => ContentType(folded[1]) = FormatMediaType(StoredMime.arg, StoredMime.charset[1])

(***************************************************************************)
(* Properties of the application of the option functions                   *)
(***************************************************************************)
\* the positions of step in the steps the call has taken
StepsAt(step) == { i \in DOMAIN steps : steps[i] = step }

\* C29: in every render call the caller's option functions are applied once:
\* by the adapter, right after its entry check has passed, and before any
\* byte is written to the sink or to BufferRenderer's buffer; a call whose
\* token was signaled before it began applies none (no Options are folded and
\* a CaptureOptions target stays unset), a call that succeeds has applied
\* them exactly once, and BufferRenderer applies none itself.
C29_OptionsAppliedOnce ==
    /\ Cardinality(StepsAt("a_options")) <= 1
    /\ \A i \in StepsAt("a_options") :
          /\ i > 1 /\ steps[i - 1] = "a_check"
          /\ cancelAt \notin {"before", "b_check1", "a_check", "a_idle"}
    /\ StepsAt("a_options") = {} =>
          /\ options = <<>> /\ captured = <<>>
          /\ sink = <<>> /\ sinkWrites = 0 /\ buf = <<>>
    /\ cancelAt = "before" => StepsAt("a_options") = {} /\ captured = <<>>
    /\ (Done /\ ret = NoError) => Cardinality(StepsAt("a_options")) = 1
    /\ options # <<>> => options[1] = Fold(cfg.kind, cfg.opts, <<>>, EmptyMap).o
    /\ captured # <<>> => captured = Fold(cfg.kind, cfg.opts, <<>>, EmptyMap).target

C29_Witness ==
    /\ cfg.buffered /\ cfg.kind = "xml" /\ cfg.header
    /\ cfg.opts = <<[op |-> "CaptureOptions"]>>
    /\ Done /\ ret = NoError
    /\ captured # <<>>
    /\ StepsAt("a_options") = {3}
    /\ sinkWrites = 1

(***************************************************************************)
(* Properties of CompositeLoader.Load and Read taken together              *)
(***************************************************************************)
\* C30: for every name a successful CompositeLoader.Load returned,
\* CompositeLoader.Read of that name succeeds and returns the content held by
\* the earliest child whose own Load listed the name, whatever extension
\* filters the children are configured with.
C30_LoadReadAgree ==
    (/\ loadRes.err = NoError
     /\ readName # <<>>
     /\ readName \in Range(loadRes.templates))
        => /\ readRes.err = NoError
           /\ readRes.content = ChildRead(loaders[FirstChild(readName)], readName).content

====
